---- MODULE Spec2Model ----
(***************************************************************************)
(* BST visualizer (src/main.cpp): the tree, the three per-frame state      *)
(* machines (insert, delete, search) and the Enter-key request gating.     *)
(*                                                                         *)
(* A node is an id in 1..MaxNodes; Null (0) is nullptr.  `new Node` takes  *)
(* the next id that was never handed out, so a freed id stays             *)
(* distinguishable from every live node.  Layout, colours and camera are   *)
(* not modelled.  animProgress is kept in units of 1/(2*animDuration), so  *)
(* 1.0f is 2*animDuration, a move frame adds 2 and a shrink frame adds 3.  *)
(* The frame counts of the source (12, 30, 24, 20, 120, 6 flashes) are     *)
(* pacing lengths; the model runs the same comparisons on shorter lengths. *)
(* mode is the input mode in which Enter was pressed in the step just      *)
(* taken, "NONE" when the step was the rest of a frame without a request.  *)
(***************************************************************************)
EXTENDS Integers, Sequences, FiniteSets, TLC

\* ---------- bounds ----------
MaxNodes == 2
MaxVal == 2
SeedLen == 4
SeedMaxVal == 3
LiveMaxVal == 1
INS_STEP_FRAMES == 2
DEL_STEP_FRAMES == 2
SEARCH_STEP_FRAMES == 2
FLASH_FRAMES == 2
FLASH_TOGGLES == 2
DEL_PAUSE_FRAMES == 2
DEL_FINALIZE_FRAMES == 1
INS_FINALIZE_FRAMES == 4
STATUS_FRAMES == 2
animDuration == 2

\* The worked example: the values inserted, in order, into the empty tree.
ScenarioSeq == <<50, 30, 70, 20, 40>>

Null == 0
\* Room for the largest tree any specification builds.
HeapSize ==
    CHOOSE h \in {MaxNodes, SeedLen, Len(ScenarioSeq)} :
        h >= MaxNodes /\ h >= SeedLen /\ h >= Len(ScenarioSeq)
NodeIds == 1..HeapSize
Values == 1..MaxVal
SeedValues == 1..SeedMaxVal
LiveValues == 1..LiveMaxVal

VARIABLES
    root, nodes, allocated, value, left, right,
    insStage, insTraversalPath, insTraversalIndex, insFramesCounter,
    insParent, insNewNode, insNewIsLeft, insFinalizeTimer, insValuePending,
    delStage, delTraversalPath, delTraversalIndex, delFramesCounter,
    delTargetParent, delTargetNode, successorParent, successorNode,
    animNode, animReplaceNode, animProgress, delValuePending,
    searchStage, searchPath, searchIndex, searchFrames, flashCount,
    searchFinalNode, searchValuePending,
    statusMessage, statusTimer,
    mode

vars == <<root, nodes, allocated, value, left, right,
    insStage, insTraversalPath, insTraversalIndex, insFramesCounter,
    insParent, insNewNode, insNewIsLeft, insFinalizeTimer, insValuePending,
    delStage, delTraversalPath, delTraversalIndex, delFramesCounter,
    delTargetParent, delTargetNode, successorParent, successorNode,
    animNode, animReplaceNode, animProgress, delValuePending,
    searchStage, searchPath, searchIndex, searchFrames, flashCount,
    searchFinalNode, searchValuePending,
    statusMessage, statusTimer, mode>>

\* The program state as one record, so that the blocks of a frame compose.
State ==
    [root |-> root, nodes |-> nodes, allocated |-> allocated,
     value |-> value, left |-> left, right |-> right,
     insStage |-> insStage, insTraversalPath |-> insTraversalPath,
     insTraversalIndex |-> insTraversalIndex,
     insFramesCounter |-> insFramesCounter, insParent |-> insParent,
     insNewNode |-> insNewNode, insNewIsLeft |-> insNewIsLeft,
     insFinalizeTimer |-> insFinalizeTimer,
     insValuePending |-> insValuePending,
     delStage |-> delStage, delTraversalPath |-> delTraversalPath,
     delTraversalIndex |-> delTraversalIndex,
     delFramesCounter |-> delFramesCounter,
     delTargetParent |-> delTargetParent, delTargetNode |-> delTargetNode,
     successorParent |-> successorParent, successorNode |-> successorNode,
     animNode |-> animNode, animReplaceNode |-> animReplaceNode,
     animProgress |-> animProgress, delValuePending |-> delValuePending,
     searchStage |-> searchStage, searchPath |-> searchPath,
     searchIndex |-> searchIndex, searchFrames |-> searchFrames,
     flashCount |-> flashCount, searchFinalNode |-> searchFinalNode,
     searchValuePending |-> searchValuePending,
     statusMessage |-> statusMessage, statusTimer |-> statusTimer]

Becomes(s) ==
    /\ root' = s.root /\ nodes' = s.nodes /\ allocated' = s.allocated
    /\ value' = s.value /\ left' = s.left /\ right' = s.right
    /\ insStage' = s.insStage /\ insTraversalPath' = s.insTraversalPath
    /\ insTraversalIndex' = s.insTraversalIndex
    /\ insFramesCounter' = s.insFramesCounter /\ insParent' = s.insParent
    /\ insNewNode' = s.insNewNode /\ insNewIsLeft' = s.insNewIsLeft
    /\ insFinalizeTimer' = s.insFinalizeTimer
    /\ insValuePending' = s.insValuePending
    /\ delStage' = s.delStage /\ delTraversalPath' = s.delTraversalPath
    /\ delTraversalIndex' = s.delTraversalIndex
    /\ delFramesCounter' = s.delFramesCounter
    /\ delTargetParent' = s.delTargetParent
    /\ delTargetNode' = s.delTargetNode
    /\ successorParent' = s.successorParent
    /\ successorNode' = s.successorNode
    /\ animNode' = s.animNode /\ animReplaceNode' = s.animReplaceNode
    /\ animProgress' = s.animProgress
    /\ delValuePending' = s.delValuePending
    /\ searchStage' = s.searchStage /\ searchPath' = s.searchPath
    /\ searchIndex' = s.searchIndex /\ searchFrames' = s.searchFrames
    /\ flashCount' = s.flashCount /\ searchFinalNode' = s.searchFinalNode
    /\ searchValuePending' = s.searchValuePending
    /\ statusMessage' = s.statusMessage /\ statusTimer' = s.statusTimer

Is(s) ==
    /\ root = s.root /\ nodes = s.nodes /\ allocated = s.allocated
    /\ value = s.value /\ left = s.left /\ right = s.right
    /\ insStage = s.insStage /\ insTraversalPath = s.insTraversalPath
    /\ insTraversalIndex = s.insTraversalIndex
    /\ insFramesCounter = s.insFramesCounter /\ insParent = s.insParent
    /\ insNewNode = s.insNewNode /\ insNewIsLeft = s.insNewIsLeft
    /\ insFinalizeTimer = s.insFinalizeTimer
    /\ insValuePending = s.insValuePending
    /\ delStage = s.delStage /\ delTraversalPath = s.delTraversalPath
    /\ delTraversalIndex = s.delTraversalIndex
    /\ delFramesCounter = s.delFramesCounter
    /\ delTargetParent = s.delTargetParent
    /\ delTargetNode = s.delTargetNode
    /\ successorParent = s.successorParent
    /\ successorNode = s.successorNode
    /\ animNode = s.animNode /\ animReplaceNode = s.animReplaceNode
    /\ animProgress = s.animProgress
    /\ delValuePending = s.delValuePending
    /\ searchStage = s.searchStage /\ searchPath = s.searchPath
    /\ searchIndex = s.searchIndex /\ searchFrames = s.searchFrames
    /\ flashCount = s.flashCount /\ searchFinalNode = s.searchFinalNode
    /\ searchValuePending = s.searchValuePending
    /\ statusMessage = s.statusMessage /\ statusTimer = s.statusTimer

\* ---------- status messages ----------
Msg(k, v) == [kind |-> k, v |-> v]
NoMessage == Msg("", 0)

SetStatus(s, m) == [s EXCEPT !.statusMessage = m, !.statusTimer = STATUS_FRAMES]

\* ---------- Node ----------
\* new Node(v): the next unused id, value v, no children.
NewNode(s, v) ==
    LET n == s.allocated + 1
    IN  [s EXCEPT !.allocated = n, !.nodes = @ \cup {n},
                  !.value[n] = v, !.left[n] = Null, !.right[n] = Null]

\* delete p: the storage is released; the id is never live again.
FreeNode(s, p) ==
    [s EXCEPT !.nodes = @ \ {p},
              !.value[p] = 0, !.left[p] = Null, !.right[p] = Null]

\* ---------- Basic BST helpers ----------
RECURSIVE FindLeftmost(_, _, _)
FindLeftmost(s, parent, cur) ==
    IF s.left[cur] # Null THEN FindLeftmost(s, cur, s.left[cur])
    ELSE <<parent, cur>>

\* (variant: the walk starts at the left child instead of the right child)
FindInorderSuccessor_FromLeft(s, node) ==
    IF node = Null \/ s.left[node] = Null THEN <<Null, Null>>
    ELSE FindLeftmost(s, node, s.left[node])

\* (variant: a right child without a left child is not taken as successor)
FindInorderSuccessor_NeedsLeft(s, node) ==
    IF node = Null \/ s.right[node] = Null
       \/ s.left[s.right[node]] = Null
    THEN <<Null, Null>>
    ELSE FindLeftmost(s, node, s.right[node])

FindInorderSuccessor(s, node) ==
    IF node = Null \/ s.right[node] = Null THEN <<Null, Null>>
    ELSE FindLeftmost(s, node, s.right[node])

\* ---------- StartInsertion ----------
RECURSIVE InsDescend(_, _, _, _)
InsDescend(s, cur, v, path) ==
    IF cur = Null THEN path
    ELSE InsDescend(s, IF v < s.value[cur] THEN s.left[cur] ELSE s.right[cur],
                    v, Append(path, cur))

\* (variant: a value equal to the last node's is sent to its left)
StartInsertion_DupLeft(s, v) ==
    LET path == InsDescend(s, s.root, v, <<>>)
        last == IF path = <<>> THEN Null ELSE path[Len(path)]
    IN  [s EXCEPT !.insTraversalPath = path,
                  !.insTraversalIndex = 0,
                  !.insFramesCounter = 0,
                  !.insStage = "INS_TRAVERSING",
                  !.insParent = last,
                  !.insNewNode = Null,
                  !.insNewIsLeft = IF last = Null THEN FALSE
                                   ELSE v <= s.value[last],
                  !.insValuePending = v]

StartInsertion(s, v) ==
    LET path == InsDescend(s, s.root, v, <<>>)
        last == IF path = <<>> THEN Null ELSE path[Len(path)]
    IN  [s EXCEPT !.insTraversalPath = path,
                  !.insTraversalIndex = 0,
                  !.insFramesCounter = 0,
                  !.insStage = "INS_TRAVERSING",
                  !.insParent = last,
                  !.insNewNode = Null,
                  !.insNewIsLeft = IF last = Null THEN FALSE
                                   ELSE v < s.value[last],
                  !.insValuePending = v]

\* (variant: the new node is linked on the other side of its parent)
AttachNewNodeFromPending_OtherSide(s) ==
    LET t == NewNode(s, s.insValuePending)
        n == t.allocated
        u == IF s.insParent = Null THEN [t EXCEPT !.root = n]
             ELSE IF s.insNewIsLeft THEN [t EXCEPT !.right[s.insParent] = n]
             ELSE [t EXCEPT !.left[s.insParent] = n]
    IN  SetStatus([u EXCEPT !.insNewNode = n,
                            !.insFinalizeTimer = INS_FINALIZE_FRAMES],
                  Msg("Inserted", s.insValuePending))

\* (variant: the attach does not start the finalize timer)
AttachNewNodeFromPending_NoTimer(s) ==
    LET t == NewNode(s, s.insValuePending)
        n == t.allocated
        u == IF s.insParent = Null THEN [t EXCEPT !.root = n]
             ELSE IF s.insNewIsLeft THEN [t EXCEPT !.left[s.insParent] = n]
             ELSE [t EXCEPT !.right[s.insParent] = n]
    IN  SetStatus([u EXCEPT !.insNewNode = n],
                  Msg("Inserted", s.insValuePending))

AttachNewNodeFromPending(s) ==
    LET t == NewNode(s, s.insValuePending)
        n == t.allocated
        u == IF s.insParent = Null THEN [t EXCEPT !.root = n]
             ELSE IF s.insNewIsLeft THEN [t EXCEPT !.left[s.insParent] = n]
             ELSE [t EXCEPT !.right[s.insParent] = n]
    IN  SetStatus([u EXCEPT !.insNewNode = n,
                            !.insFinalizeTimer = INS_FINALIZE_FRAMES],
                  Msg("Inserted", s.insValuePending))

\* ---------- StartDeletion / StartSearch ----------
\* The descent that stops at the first node whose value equals v.
RECURSIVE FindDescend(_, _, _, _, _)
FindDescend(s, cur, parent, v, path) ==
    IF cur = Null THEN [path |-> path, parent |-> Null, node |-> Null]
    ELSE IF v = s.value[cur]
         THEN [path |-> Append(path, cur), parent |-> parent, node |-> cur]
    ELSE FindDescend(s, IF v < s.value[cur] THEN s.left[cur] ELSE s.right[cur],
                     cur, v, Append(path, cur))

\* (variant: a descent that falls off the tree keeps the last node as target)
StartDeletion_LastVisited(s, v) ==
    LET d == FindDescend(s, s.root, Null, v, <<>>)
        n == Len(d.path)
    IN  [s EXCEPT !.delTraversalPath = d.path,
                  !.delTraversalIndex = 0,
                  !.delFramesCounter = 0,
                  !.delStage = "DEL_TRAVERSING",
                  !.delTargetParent = IF d.node # Null THEN d.parent
                                      ELSE IF n > 1 THEN d.path[n - 1]
                                      ELSE Null,
                  !.delTargetNode = IF d.node # Null THEN d.node
                                    ELSE IF n > 0 THEN d.path[n] ELSE Null,
                  !.successorParent = Null,
                  !.successorNode = Null,
                  !.animNode = Null,
                  !.animReplaceNode = Null,
                  !.animProgress = 0,
                  !.delValuePending = v]

\* (variant: the parent of the target is not recorded)
StartDeletion_NoParent(s, v) ==
    LET d == FindDescend(s, s.root, Null, v, <<>>)
    IN  [s EXCEPT !.delTraversalPath = d.path,
                  !.delTraversalIndex = 0,
                  !.delFramesCounter = 0,
                  !.delStage = "DEL_TRAVERSING",
                  !.delTargetParent = Null,
                  !.delTargetNode = d.node,
                  !.successorParent = Null,
                  !.successorNode = Null,
                  !.animNode = Null,
                  !.animReplaceNode = Null,
                  !.animProgress = 0,
                  !.delValuePending = v]

StartDeletion(s, v) ==
    LET d == FindDescend(s, s.root, Null, v, <<>>)
    IN  [s EXCEPT !.delTraversalPath = d.path,
                  !.delTraversalIndex = 0,
                  !.delFramesCounter = 0,
                  !.delStage = "DEL_TRAVERSING",
                  !.delTargetParent = d.parent,
                  !.delTargetNode = d.node,
                  !.successorParent = Null,
                  !.successorNode = Null,
                  !.animNode = Null,
                  !.animReplaceNode = Null,
                  !.animProgress = 0,
                  !.delValuePending = v]

\* (variant: the descent does not stop at the node that holds the value)
StartSearch_GoesOn(s, v) ==
    LET d == FindDescend(s, s.root, Null, v, <<>>)
    IN  [s EXCEPT !.searchPath = InsDescend(s, s.root, v, <<>>),
                  !.searchIndex = 0,
                  !.searchFrames = 0,
                  !.flashCount = 0,
                  !.searchFinalNode = d.node,
                  !.searchStage = "S_TRAVERSING",
                  !.searchValuePending = v]

StartSearch(s, v) ==
    LET d == FindDescend(s, s.root, Null, v, <<>>)
    IN  [s EXCEPT !.searchPath = d.path,
                  !.searchIndex = 0,
                  !.searchFrames = 0,
                  !.flashCount = 0,
                  !.searchFinalNode = d.node,
                  !.searchStage = "S_TRAVERSING",
                  !.searchValuePending = v]

\* ---------- Enter key: request gating ----------
\* (variant: a refused insert keeps its value for later)
InsertRequest_KeepsValue(s, v) ==
    IF s.delStage = "DEL_IDLE" /\ s.insStage = "INS_IDLE"
    THEN StartInsertion(s, v)
    ELSE [SetStatus(s, Msg("InsertBlocked", 0)) EXCEPT !.insValuePending = v]

\* (variant: the delete gate forgets the insert machine)
DeleteRequest_IgnoresInsert(s, v) ==
    IF s.delStage = "DEL_IDLE" /\ s.searchStage = "S_IDLE"
    THEN StartDeletion(s, v)
    ELSE SetStatus(s, Msg("DeleteBlocked", 0))

\* (variant: the search gate forgets the insert machine)
SearchRequest_IgnoresInsert(s, v) ==
    IF s.delStage = "DEL_IDLE" /\ s.searchStage = "S_IDLE"
    THEN StartSearch(s, v)
    ELSE SetStatus(s, Msg("SearchBlocked", 0))

\* (variant: the insert gate forgets the delete machine)
InsertRequest_IgnoresDelete(s, v) ==
    IF s.insStage = "INS_IDLE"
    THEN StartInsertion(s, v)
    ELSE SetStatus(s, Msg("InsertBlocked", 0))

\* (variant: a new insert is accepted while an insert is running)
InsertRequest_Restarts(s, v) ==
    IF s.delStage = "DEL_IDLE"
    THEN StartInsertion(s, v)
    ELSE SetStatus(s, Msg("InsertBlocked", 0))

\* (variant: an insert is started whatever else is running)
InsertRequest_Ungated(s, v) == StartInsertion(s, v)

InsertRequest(s, v) ==
    IF s.delStage = "DEL_IDLE" /\ s.insStage = "INS_IDLE"
    THEN StartInsertion(s, v)
    ELSE SetStatus(s, Msg("InsertBlocked", 0))

\* (variant: the delete gate forgets the search machine)
DeleteRequest_IgnoresSearch(s, v) ==
    IF s.delStage = "DEL_IDLE" /\ s.insStage = "INS_IDLE"
    THEN StartDeletion(s, v)
    ELSE SetStatus(s, Msg("DeleteBlocked", 0))

DeleteRequest(s, v) ==
    IF s.delStage = "DEL_IDLE" /\ s.searchStage = "S_IDLE"
       /\ s.insStage = "INS_IDLE"
    THEN StartDeletion(s, v)
    ELSE SetStatus(s, Msg("DeleteBlocked", 0))

SearchRequest(s, v) ==
    IF s.delStage = "DEL_IDLE" /\ s.insStage = "INS_IDLE"
       /\ s.searchStage = "S_IDLE"
    THEN StartSearch(s, v)
    ELSE SetStatus(s, Msg("SearchBlocked", 0))

\* ---------- Insert state machine ----------
\* (variant: the node is attached one step before the path is fully shown)
InsertMachine_AttachesEarly(s) ==
    IF s.insStage = "INS_TRAVERSING" THEN
        IF s.insFramesCounter + 1 >= INS_STEP_FRAMES THEN
            IF s.insTraversalIndex + 1 < Len(s.insTraversalPath)
            THEN [s EXCEPT !.insFramesCounter = 0,
                           !.insTraversalIndex = @ + 1]
            ELSE [AttachNewNodeFromPending([s EXCEPT !.insFramesCounter = 0])
                     EXCEPT !.insStage = "INS_FINALIZE"]
        ELSE [s EXCEPT !.insFramesCounter = @ + 1]
    ELSE IF s.insStage = "INS_FINALIZE" THEN
        IF s.insFinalizeTimer > 0 THEN
            IF s.insFinalizeTimer - 1 = 0
            THEN [s EXCEPT !.insFinalizeTimer = 0, !.insNewNode = Null,
                           !.insStage = "INS_IDLE"]
            ELSE [s EXCEPT !.insFinalizeTimer = @ - 1]
        ELSE s
    ELSE s

InsertMachine(s) ==
    IF s.insStage = "INS_TRAVERSING" THEN
        IF s.insFramesCounter + 1 >= INS_STEP_FRAMES THEN
            IF s.insTraversalIndex < Len(s.insTraversalPath)
            THEN [s EXCEPT !.insFramesCounter = 0,
                           !.insTraversalIndex = @ + 1]
            ELSE [AttachNewNodeFromPending([s EXCEPT !.insFramesCounter = 0])
                     EXCEPT !.insStage = "INS_FINALIZE"]
        ELSE [s EXCEPT !.insFramesCounter = @ + 1]
    ELSE IF s.insStage = "INS_FINALIZE" THEN
        IF s.insFinalizeTimer > 0 THEN
            IF s.insFinalizeTimer - 1 = 0
            THEN [s EXCEPT !.insFinalizeTimer = 0, !.insNewNode = Null,
                           !.insStage = "INS_IDLE"]
            ELSE [s EXCEPT !.insFinalizeTimer = @ - 1]
        ELSE s
    ELSE s

\* The block after the search machine that also counts insFinalizeTimer down.
InsFinalizeTimerBlock(s) ==
    IF s.insFinalizeTimer > 0 THEN
        IF s.insFinalizeTimer - 1 = 0
        THEN [s EXCEPT !.insFinalizeTimer = 0, !.insNewNode = Null,
                       !.insStage = "INS_IDLE"]
        ELSE [s EXCEPT !.insFinalizeTimer = @ - 1]
    ELSE s

StatusTimerBlock(s) ==
    IF s.statusTimer > 0 THEN
        IF s.statusTimer - 1 = 0
        THEN [s EXCEPT !.statusTimer = 0, !.statusMessage = NoMessage]
        ELSE [s EXCEPT !.statusTimer = @ - 1]
    ELSE s

\* Draw-time population of an empty insTraversalPath (insertion rings).
DrawPopulateInsPath(s) ==
    IF s.insStage = "INS_TRAVERSING" /\ s.insTraversalPath = <<>>
       /\ s.root # Null
    THEN [s EXCEPT !.insTraversalPath =
                       InsDescend(s, s.root, s.insValuePending, <<>>)]
    ELSE s

\* End-of-frame population of an empty insTraversalPath.
EndPopulateInsPath(s) ==
    IF s.insStage = "INS_TRAVERSING" /\ s.insTraversalPath = <<>>
    THEN [s EXCEPT !.insTraversalPath =
                       InsDescend(s, s.root, s.insValuePending, <<>>),
                   !.insTraversalIndex = 0]
    ELSE s

\* ---------- Delete state machine ----------
AnimFull == 2 * animDuration

\* (variant: a found target is highlighted before its path was shown)
DelTraversing_StopsEarly(s) ==
    IF s.delFramesCounter + 1 >= DEL_STEP_FRAMES THEN
        IF s.delTargetNode # Null
        THEN [s EXCEPT !.delStage = "DEL_HIGHLIGHT_TARGET",
                       !.delFramesCounter = 0]
        ELSE IF s.delTraversalIndex < Len(s.delTraversalPath)
        THEN [s EXCEPT !.delFramesCounter = 0, !.delTraversalIndex = @ + 1]
        ELSE [SetStatus(s, Msg("DeleteNotFound", s.delValuePending))
                 EXCEPT !.delFramesCounter = 0,
                        !.delStage = "DEL_IDLE",
                        !.delTraversalPath = <<>>,
                        !.delTraversalIndex = 0]
    ELSE [s EXCEPT !.delFramesCounter = @ + 1]

\* (variant: the index is counted up once more when the traversal ends)
DelTraversing_CountsOn(s) ==
    IF s.delFramesCounter + 1 >= DEL_STEP_FRAMES THEN
        IF s.delTraversalIndex < Len(s.delTraversalPath)
        THEN [s EXCEPT !.delFramesCounter = 0, !.delTraversalIndex = @ + 1]
        ELSE IF s.delTargetNode = Null
        THEN [SetStatus(s, Msg("DeleteNotFound", s.delValuePending))
                 EXCEPT !.delFramesCounter = 0,
                        !.delStage = "DEL_IDLE",
                        !.delTraversalPath = <<>>,
                        !.delTraversalIndex = 0]
        ELSE [s EXCEPT !.delStage = "DEL_HIGHLIGHT_TARGET",
                       !.delTraversalIndex = @ + 1,
                       !.delFramesCounter = 0]
    ELSE [s EXCEPT !.delFramesCounter = @ + 1]

DelTraversing(s) ==
    IF s.delFramesCounter + 1 >= DEL_STEP_FRAMES THEN
        IF s.delTraversalIndex < Len(s.delTraversalPath)
        THEN [s EXCEPT !.delFramesCounter = 0, !.delTraversalIndex = @ + 1]
        ELSE IF s.delTargetNode = Null
        THEN [SetStatus(s, Msg("DeleteNotFound", s.delValuePending))
                 EXCEPT !.delFramesCounter = 0,
                        !.delStage = "DEL_IDLE",
                        !.delTraversalPath = <<>>,
                        !.delTraversalIndex = 0]
        ELSE [s EXCEPT !.delStage = "DEL_HIGHLIGHT_TARGET",
                       !.delFramesCounter = 0]
    ELSE [s EXCEPT !.delFramesCounter = @ + 1]

\* (variant: a leaf target is unlinked and freed as soon as its pause ends)
DelHighlightTarget_RemovesLeafAtOnce(s) ==
    LET t == s.delTargetNode
        c == [s EXCEPT !.delFramesCounter = @ + 1]
    IN  IF c.delFramesCounter >= DEL_PAUSE_FRAMES THEN
            IF s.left[t] = Null /\ s.right[t] = Null
            THEN LET parent == s.delTargetParent
                     a == IF parent = Null
                          THEN [FreeNode(c, c.root) EXCEPT !.root = Null]
                          ELSE FreeNode(IF c.left[parent] = t
                                        THEN [c EXCEPT !.left[parent] = Null]
                                        ELSE [c EXCEPT !.right[parent] = Null],
                                        t)
                 IN  SetStatus([a EXCEPT !.delTargetNode = Null,
                                         !.delStage = "DEL_FINALIZE"],
                               Msg("Deleted", s.delValuePending))
            ELSE IF s.left[t] # Null /\ s.right[t] # Null THEN
                LET pr == FindInorderSuccessor(s, t)
                IN  [c EXCEPT !.successorParent =
                                  IF pr[1] # Null THEN pr[1] ELSE t,
                              !.successorNode = pr[2],
                              !.delStage = IF pr[2] # Null
                                           THEN "DEL_HIGHLIGHT_SUCCESSOR"
                                           ELSE "DEL_FINALIZE",
                              !.delFramesCounter = 0]
            ELSE [c EXCEPT !.delStage = "DEL_MOVE_CHILD_UP",
                           !.animNode = IF s.left[t] # Null THEN s.left[t]
                                        ELSE s.right[t],
                           !.animProgress = 0]
        ELSE c

DelHighlightTarget(s) ==
    LET t == s.delTargetNode
        c == [s EXCEPT !.delFramesCounter = @ + 1]
    IN  IF c.delFramesCounter >= DEL_PAUSE_FRAMES THEN
            IF s.left[t] = Null /\ s.right[t] = Null
            THEN [c EXCEPT !.delStage = "DEL_SHRINK_REMOVE",
                           !.animNode = t, !.animProgress = 0]
            ELSE IF s.left[t] # Null /\ s.right[t] # Null THEN
                LET pr == FindInorderSuccessor(s, t)
                IN  [c EXCEPT !.successorParent =
                                  IF pr[1] # Null THEN pr[1] ELSE t,
                              !.successorNode = pr[2],
                              !.delStage = IF pr[2] # Null
                                           THEN "DEL_HIGHLIGHT_SUCCESSOR"
                                           ELSE "DEL_FINALIZE",
                              !.delFramesCounter = 0]
            ELSE [c EXCEPT !.delStage = "DEL_MOVE_CHILD_UP",
                           !.animNode = IF s.left[t] # Null THEN s.left[t]
                                        ELSE s.right[t],
                           !.animProgress = 0]
        ELSE c

\* DEL_HIGHLIGHT_TARGET of the insert+delete build, which names a stage
\* DEL_REWIRING for a two-child target without successor.
DelHighlightTarget_InsertDelete(s) ==
    LET t == s.delTargetNode
        c == [s EXCEPT !.delFramesCounter = @ + 1]
    IN  IF c.delFramesCounter >= DEL_PAUSE_FRAMES THEN
            IF s.left[t] = Null /\ s.right[t] = Null
            THEN [c EXCEPT !.delStage = "DEL_SHRINK_REMOVE",
                           !.animNode = t, !.animProgress = 0,
                           !.delFramesCounter = 0]
            ELSE IF s.left[t] # Null /\ s.right[t] # Null THEN
                LET pr == FindInorderSuccessor(s, t)
                IN  [c EXCEPT !.successorParent =
                                  IF pr[1] # Null THEN pr[1] ELSE t,
                              !.successorNode = pr[2],
                              !.delStage = IF pr[2] # Null
                                           THEN "DEL_HIGHLIGHT_SUCCESSOR"
                                           ELSE "DEL_REWIRING",
                              !.delFramesCounter = 0]
            ELSE [c EXCEPT !.delStage = "DEL_MOVE_CHILD_UP",
                           !.animNode = IF s.left[t] # Null THEN s.left[t]
                                        ELSE s.right[t],
                           !.animProgress = 0,
                           !.delFramesCounter = 0]
        ELSE c

DelHighlightSuccessor(s) ==
    LET c == [s EXCEPT !.delFramesCounter = @ + 1]
    IN  IF c.delFramesCounter >= DEL_PAUSE_FRAMES
        THEN [c EXCEPT !.delStage = "DEL_MOVE_SUCCESSOR",
                       !.animNode = s.successorNode,
                       !.animReplaceNode = s.delTargetNode,
                       !.animProgress = 0]
        ELSE c

\* (variant: the successor is always unlinked from its parent's left slot)
CommitMoveSuccessor_AlwaysLeft(s) ==
    LET t == s.delTargetNode
        sn == s.successorNode
        sp == s.successorParent
        a == [s EXCEPT !.value[t] = s.value[sn]]
        b == [a EXCEPT !.left[sp] = a.right[sn]]
        c == FreeNode(b, sn)
    IN  SetStatus([c EXCEPT !.successorNode = Null,
                            !.successorParent = Null,
                            !.animNode = Null, !.animReplaceNode = Null,
                            !.delStage = "DEL_FINALIZE",
                            !.delFramesCounter = 0],
                  Msg("Deleted", s.delValuePending))

\* (variant: the successor's value is not copied into the target)
CommitMoveSuccessor_NoCopy(s) ==
    LET sn == s.successorNode
        sp == s.successorParent
        b == IF s.left[sp] = sn THEN [s EXCEPT !.left[sp] = s.right[sn]]
             ELSE IF s.right[sp] = sn THEN [s EXCEPT !.right[sp] = s.right[sn]]
             ELSE s
        c == FreeNode(b, sn)
    IN  SetStatus([c EXCEPT !.successorNode = Null,
                            !.successorParent = Null,
                            !.animNode = Null, !.animReplaceNode = Null,
                            !.delStage = "DEL_FINALIZE",
                            !.delFramesCounter = 0],
                  Msg("Deleted", s.delValuePending))

\* (variant: the successor's slot is cleared, its right subtree is dropped)
CommitMoveSuccessor_DropsRight(s) ==
    LET t == s.delTargetNode
        sn == s.successorNode
        sp == s.successorParent
        a == [s EXCEPT !.value[t] = s.value[sn]]
        b == IF a.left[sp] = sn THEN [a EXCEPT !.left[sp] = Null]
             ELSE IF a.right[sp] = sn THEN [a EXCEPT !.right[sp] = Null]
             ELSE a
        c == FreeNode(b, sn)
    IN  SetStatus([c EXCEPT !.successorNode = Null,
                            !.successorParent = Null,
                            !.animNode = Null, !.animReplaceNode = Null,
                            !.delStage = "DEL_FINALIZE",
                            !.delFramesCounter = 0],
                  Msg("Deleted", s.delValuePending))

\* The commit of DEL_MOVE_SUCCESSOR: copy the value, unlink, free.
\* (variant: the successor's value is copied but the successor stays)
CommitMoveSuccessor_KeepsSuccessor(s) ==
    LET t == s.delTargetNode
        sn == s.successorNode
        a == [s EXCEPT !.value[t] = s.value[sn]]
    IN  SetStatus([a EXCEPT !.successorNode = Null,
                            !.successorParent = Null,
                            !.animNode = Null, !.animReplaceNode = Null,
                            !.delStage = "DEL_FINALIZE",
                            !.delFramesCounter = 0],
                  Msg("Deleted", s.delValuePending))

CommitMoveSuccessor(s) ==
    LET t == s.delTargetNode
        sn == s.successorNode
        sp == s.successorParent
        a == [s EXCEPT !.value[t] = s.value[sn]]
        b == IF a.left[sp] = sn THEN [a EXCEPT !.left[sp] = a.right[sn]]
             ELSE IF a.right[sp] = sn THEN [a EXCEPT !.right[sp] = a.right[sn]]
             ELSE a
        c == FreeNode(b, sn)
    IN  SetStatus([c EXCEPT !.successorNode = Null,
                            !.successorParent = Null,
                            !.animNode = Null, !.animReplaceNode = Null,
                            !.delStage = "DEL_FINALIZE",
                            !.delFramesCounter = 0],
                  Msg("Deleted", s.delValuePending))

DelMoveSuccessor(s) ==
    LET p == IF s.animProgress + 2 > AnimFull THEN AnimFull
             ELSE s.animProgress + 2
        c == [s EXCEPT !.animProgress = p]
    IN  IF p >= AnimFull THEN CommitMoveSuccessor(c) ELSE c

\* (variant: the target is unlinked but never deleted)
CommitMoveChildUp_NoFree(s) ==
    LET t == s.delTargetNode
        parent == s.delTargetParent
        child == IF s.left[t] # Null THEN s.left[t] ELSE s.right[t]
        a == IF parent = Null THEN [s EXCEPT !.root = child]
             ELSE IF s.left[parent] = t THEN [s EXCEPT !.left[parent] = child]
             ELSE IF s.right[parent] = t
                  THEN [s EXCEPT !.right[parent] = child]
             ELSE s
    IN  SetStatus([a EXCEPT !.delTargetNode = Null, !.animNode = Null,
                            !.delStage = "DEL_FINALIZE"],
                  Msg("Deleted", s.delValuePending))

\* (variant: the target's slot is cleared, its sole child is left behind)
CommitMoveChildUp_DropsChild(s) ==
    LET t == s.delTargetNode
        parent == s.delTargetParent
        a == IF parent = Null THEN [s EXCEPT !.root = Null]
             ELSE IF s.left[parent] = t THEN [s EXCEPT !.left[parent] = Null]
             ELSE IF s.right[parent] = t
                  THEN [s EXCEPT !.right[parent] = Null]
             ELSE s
        b == FreeNode(a, t)
    IN  SetStatus([b EXCEPT !.delTargetNode = Null, !.animNode = Null,
                            !.delStage = "DEL_FINALIZE"],
                  Msg("Deleted", s.delValuePending))

\* The commit of DEL_MOVE_CHILD_UP: the sole child takes the target's slot.
CommitMoveChildUp(s) ==
    LET t == s.delTargetNode
        parent == s.delTargetParent
        child == IF s.left[t] # Null THEN s.left[t] ELSE s.right[t]
        a == IF parent = Null THEN [s EXCEPT !.root = child]
             ELSE IF s.left[parent] = t THEN [s EXCEPT !.left[parent] = child]
             ELSE IF s.right[parent] = t
                  THEN [s EXCEPT !.right[parent] = child]
             ELSE s
        b == FreeNode(a, t)
    IN  SetStatus([b EXCEPT !.delTargetNode = Null, !.animNode = Null,
                            !.delStage = "DEL_FINALIZE"],
                  Msg("Deleted", s.delValuePending))

DelMoveChildUp(s) ==
    LET p == IF s.animProgress + 2 > AnimFull THEN AnimFull
             ELSE s.animProgress + 2
        c == [s EXCEPT !.animProgress = p]
    IN  IF p >= AnimFull THEN CommitMoveChildUp(c) ELSE c

\* (variant: the leaf is freed while its parent's slot still points at it)
CommitShrinkRemove_KeepsLink(s) ==
    LET parent == s.delTargetParent
        an == s.animNode
        a == IF parent = Null
             THEN [FreeNode(s, s.root) EXCEPT !.root = Null]
             ELSE [s EXCEPT !.nodes = @ \ {an}, !.value[an] = 0]
    IN  SetStatus([a EXCEPT !.animNode = Null, !.delTargetNode = Null,
                            !.delStage = "DEL_FINALIZE"],
                  Msg("Deleted", s.delValuePending))

\* The commit of DEL_SHRINK_REMOVE: clear the slot, free the leaf.
\* (variant: the freed leaf stays the animating node)
CommitShrinkRemove_KeepsAnimNode(s) ==
    LET parent == s.delTargetParent
        an == s.animNode
        a == IF parent = Null
             THEN [FreeNode(s, s.root) EXCEPT !.root = Null]
             ELSE FreeNode(IF s.left[parent] = an
                           THEN [s EXCEPT !.left[parent] = Null]
                           ELSE IF s.right[parent] = an
                           THEN [s EXCEPT !.right[parent] = Null]
                           ELSE s, an)
    IN  SetStatus([a EXCEPT !.delTargetNode = Null,
                            !.delStage = "DEL_FINALIZE"],
                  Msg("Deleted", s.delValuePending))

\* (variant: removing a leaf clears both links of its parent)
CommitShrinkRemove_ClearsBoth(s) ==
    LET parent == s.delTargetParent
        an == s.animNode
        a == IF parent = Null
             THEN [FreeNode(s, s.root) EXCEPT !.root = Null]
             ELSE FreeNode([s EXCEPT !.left[parent] = Null,
                                     !.right[parent] = Null], an)
    IN  SetStatus([a EXCEPT !.animNode = Null, !.delTargetNode = Null,
                            !.delStage = "DEL_FINALIZE"],
                  Msg("Deleted", s.delValuePending))

CommitShrinkRemove(s) ==
    LET parent == s.delTargetParent
        an == s.animNode
        a == IF parent = Null
             THEN [FreeNode(s, s.root) EXCEPT !.root = Null]
             ELSE FreeNode(IF s.left[parent] = an
                           THEN [s EXCEPT !.left[parent] = Null]
                           ELSE IF s.right[parent] = an
                           THEN [s EXCEPT !.right[parent] = Null]
                           ELSE s, an)
    IN  SetStatus([a EXCEPT !.animNode = Null, !.delTargetNode = Null,
                            !.delStage = "DEL_FINALIZE"],
                  Msg("Deleted", s.delValuePending))

DelShrinkRemove(s) ==
    IF s.animNode = Null THEN [s EXCEPT !.delStage = "DEL_FINALIZE"]
    ELSE LET c == [s EXCEPT !.animProgress = @ + 3]
         IN  IF c.animProgress >= AnimFull THEN CommitShrinkRemove(c) ELSE c

DelFinalize(s) ==
    IF s.delFramesCounter + 1 > DEL_FINALIZE_FRAMES
    THEN [s EXCEPT !.delStage = "DEL_IDLE", !.delTraversalPath = <<>>,
                   !.delTraversalIndex = 0, !.delFramesCounter = 0]
    ELSE [s EXCEPT !.delFramesCounter = @ + 1]

DeleteMachine(s) ==
    CASE s.delStage = "DEL_TRAVERSING" -> DelTraversing(s)
      [] s.delStage = "DEL_HIGHLIGHT_TARGET" -> DelHighlightTarget(s)
      [] s.delStage = "DEL_HIGHLIGHT_SUCCESSOR" -> DelHighlightSuccessor(s)
      [] s.delStage = "DEL_MOVE_SUCCESSOR" -> DelMoveSuccessor(s)
      [] s.delStage = "DEL_MOVE_CHILD_UP" -> DelMoveChildUp(s)
      [] s.delStage = "DEL_SHRINK_REMOVE" -> DelShrinkRemove(s)
      [] s.delStage = "DEL_FINALIZE" -> DelFinalize(s)
      [] OTHER -> s

\* ---------- Search state machine ----------
\* (variant: "Not found" shows the value of the last node visited)
SearchTraversing_ReportsNodeValue(s) ==
    IF s.delStage # "DEL_IDLE" \/ s.insStage # "INS_IDLE" THEN s
    ELSE IF s.searchFrames + 1 >= SEARCH_STEP_FRAMES THEN
        IF s.searchIndex < Len(s.searchPath)
        THEN [s EXCEPT !.searchFrames = 0, !.searchIndex = @ + 1]
        ELSE IF s.searchPath = <<>>
        THEN [SetStatus(s, Msg("NotFound", s.searchValuePending))
                 EXCEPT !.searchFrames = 0,
                        !.searchStage = "S_FLASH_NOTFOUND",
                        !.searchFinalNode = Null]
        ELSE IF s.searchFinalNode # Null
        THEN [SetStatus(s, Msg("Found", s.searchValuePending))
                 EXCEPT !.searchFrames = 0,
                        !.searchStage = "S_FLASH_FOUND"]
        ELSE [SetStatus(s, Msg("NotFound",
                               s.value[s.searchPath[Len(s.searchPath)]]))
                 EXCEPT !.searchFrames = 0,
                        !.searchStage = "S_FLASH_NOTFOUND",
                        !.searchFinalNode =
                            s.searchPath[Len(s.searchPath)]]
    ELSE [s EXCEPT !.searchFrames = @ + 1]

SearchTraversing(s) ==
    IF s.delStage # "DEL_IDLE" \/ s.insStage # "INS_IDLE" THEN s
    ELSE IF s.searchFrames + 1 >= SEARCH_STEP_FRAMES THEN
        IF s.searchIndex < Len(s.searchPath)
        THEN [s EXCEPT !.searchFrames = 0, !.searchIndex = @ + 1]
        ELSE IF s.searchPath = <<>>
        THEN [SetStatus(s, Msg("NotFound", s.searchValuePending))
                 EXCEPT !.searchFrames = 0,
                        !.searchStage = "S_FLASH_NOTFOUND",
                        !.searchFinalNode = Null]
        ELSE IF s.searchFinalNode # Null
        THEN [SetStatus(s, Msg("Found", s.searchValuePending))
                 EXCEPT !.searchFrames = 0,
                        !.searchStage = "S_FLASH_FOUND"]
        ELSE [SetStatus(s, Msg("NotFound", s.searchValuePending))
                 EXCEPT !.searchFrames = 0,
                        !.searchStage = "S_FLASH_NOTFOUND",
                        !.searchFinalNode =
                            s.searchPath[Len(s.searchPath)]]
    ELSE [s EXCEPT !.searchFrames = @ + 1]

\* (variant: the toggle count starts over each time the flash switches)
SearchFlash_ResetsCount(s) ==
    IF s.searchFrames + 1 >= FLASH_FRAMES THEN
        IF s.flashCount + 1 >= FLASH_TOGGLES + 1
        THEN [s EXCEPT !.searchFrames = 0, !.searchStage = "S_IDLE",
                       !.searchPath = <<>>, !.searchIndex = 0,
                       !.flashCount = 0, !.searchFinalNode = Null]
        ELSE [s EXCEPT !.searchFrames = 0, !.flashCount = 0]
    ELSE [s EXCEPT !.searchFrames = @ + 1]

SearchFlash(s) ==
    IF s.searchFrames + 1 >= FLASH_FRAMES THEN
        IF s.flashCount + 1 >= FLASH_TOGGLES
        THEN [s EXCEPT !.searchFrames = 0, !.searchStage = "S_IDLE",
                       !.searchPath = <<>>, !.searchIndex = 0,
                       !.flashCount = 0, !.searchFinalNode = Null]
        ELSE [s EXCEPT !.searchFrames = 0, !.flashCount = @ + 1]
    ELSE [s EXCEPT !.searchFrames = @ + 1]

SearchMachine(s) ==
    CASE s.searchStage = "S_TRAVERSING" -> SearchTraversing(s)
      [] s.searchStage \in {"S_FLASH_FOUND", "S_FLASH_NOTFOUND"}
             -> SearchFlash(s)
      [] OTHER -> s

\* ---------- one frame of the main loop, after input handling ----------
Frame(s) ==
    EndPopulateInsPath(DrawPopulateInsPath(StatusTimerBlock(
        InsFinalizeTimerBlock(SearchMachine(DeleteMachine(
            InsertMachine(s)))))))

\* ---------- initial state and actions ----------
Empty ==
    [root |-> Null, nodes |-> {}, allocated |-> 0,
     value |-> [n \in NodeIds |-> 0],
     left |-> [n \in NodeIds |-> Null],
     right |-> [n \in NodeIds |-> Null],
     insStage |-> "INS_IDLE", insTraversalPath |-> <<>>,
     insTraversalIndex |-> 0, insFramesCounter |-> 0,
     insParent |-> Null, insNewNode |-> Null, insNewIsLeft |-> FALSE,
     insFinalizeTimer |-> 0, insValuePending |-> 0,
     delStage |-> "DEL_IDLE", delTraversalPath |-> <<>>,
     delTraversalIndex |-> 0, delFramesCounter |-> 0,
     delTargetParent |-> Null, delTargetNode |-> Null,
     successorParent |-> Null, successorNode |-> Null,
     animNode |-> Null, animReplaceNode |-> Null,
     animProgress |-> 0, delValuePending |-> 0,
     searchStage |-> "S_IDLE", searchPath |-> <<>>,
     searchIndex |-> 0, searchFrames |-> 0, flashCount |-> 0,
     searchFinalNode |-> Null, searchValuePending |-> 0,
     statusMessage |-> NoMessage, statusTimer |-> 0]

Init == Is(Empty) /\ mode = "NONE"

\* Enter in insert mode.  An accepted insert will allocate one node, so a
\* request that would be accepted is issued only while an id is left.
RequestInsert(v) ==
    /\ allocated < MaxNodes \/ delStage # "DEL_IDLE" \/ insStage # "INS_IDLE"
    /\ Becomes(InsertRequest(State, v))
    /\ mode' = "MODE_INSERT"

\* Enter in delete mode.
RequestDelete(v) ==
    /\ Becomes(DeleteRequest(State, v))
    /\ mode' = "MODE_DELETE"

\* Enter in search mode.
RequestSearch(v) ==
    /\ Becomes(SearchRequest(State, v))
    /\ mode' = "MODE_SEARCH"

\* The rest of the loop body: the three machines, the timers, the drawing.
Tick ==
    /\ Becomes(Frame(State))
    /\ mode' = "NONE"

Next ==
    \/ \E v \in Values : RequestInsert(v)
    \/ \E v \in Values : RequestDelete(v)
    \/ \E v \in Values : RequestSearch(v)
    \/ Tick

Spec == Init /\ [][Next]_vars

\* ---------- frames keep arriving ----------
\* Frame(s0) as a one-element set, each block applied to the computed result
\* of the block before it.
Frames(s0) ==
    {EndPopulateInsPath(g) : g \in
     {DrawPopulateInsPath(f) : f \in
      {StatusTimerBlock(e) : e \in
       {InsFinalizeTimerBlock(d) : d \in
        {SearchMachine(c) : c \in
         {DeleteMachine(b) : b \in
          {InsertMachine(a) : a \in {s0}}}}}}}}

\* The step of Tick.
FrameArrives ==
    /\ \E s \in Frames(State) : Becomes(s)
    /\ mode' = "NONE"

\* The main loop runs a frame after every frame; requests come or do not.
\* How long an operation takes depends on the shape of the tree and on the
\* other machines, not on the values, so the requests draw from fewer values.
NextLive ==
    \/ \E v \in LiveValues : RequestInsert(v)
    \/ \E v \in LiveValues : RequestDelete(v)
    \/ \E v \in LiveValues : RequestSearch(v)
    \/ Tick

SpecLive == Init /\ [][NextLive]_vars /\ WF_vars(FrameArrives)

\* ---------- trees grown by insertions, then deletes only ----------
\* The frames of one operation, run until all three machines are idle.
RECURSIVE RunToIdle(_)
RunToIdle(s) ==
    IF s.insStage = "INS_IDLE" /\ s.delStage = "DEL_IDLE"
       /\ s.searchStage = "S_IDLE"
    THEN s ELSE RunToIdle(Frame(s))

\* The state after inserting seq[1], seq[2], ... each settled before the next.
RECURSIVE Grown(_, _)
Grown(seq, k) ==
    IF k = 0 THEN Empty
    ELSE RunToIdle(InsertRequest(Grown(seq, k - 1), seq[k]))

SeedSeqs == UNION {[1..k -> SeedValues] : k \in 0..SeedLen}

InitGrown ==
    /\ \E seq \in SeedSeqs : Is(Grown(seq, Len(seq)))
    /\ mode = "NONE"

NextGrown ==
    \/ \E v \in SeedValues : RequestDelete(v)
    \/ Tick

SpecGrown == InitGrown /\ [][NextGrown]_vars

\* ---------- the worked example ----------
\* The tree of ScenarioSeq, then searches for 40, deletes of 30 and frames.
InitScenario ==
    /\ Is(Grown(ScenarioSeq, Len(ScenarioSeq)))
    /\ mode = "NONE"

NextScenario ==
    \/ RequestSearch(40)
    \/ RequestDelete(30)
    \/ Tick

SpecScenario == InitScenario /\ [][NextScenario]_vars

\* ---------- the deletion without animation ----------
\* FindWithParent(root, value): <<parent, node>> of the first node on the
\* descent that holds the value, <<Null, Null>> when the descent falls off.
RECURSIVE FindWithParentFrom(_, _, _, _)
FindWithParentFrom(s, parent, cur, v) ==
    IF cur = Null THEN <<Null, Null>>
    ELSE IF v = s.value[cur] THEN <<parent, cur>>
    ELSE FindWithParentFrom(s, cur,
                            IF v < s.value[cur] THEN s.left[cur]
                            ELSE s.right[cur],
                            v)

FindWithParent(s, v) == FindWithParentFrom(s, Null, s.root, v)

\* ReplaceChild of the insert+delete build: the link of parent that holds
\* oldChild (the root reference for a null parent) gets newChild.
ReplaceChild(s, parent, oldChild, newChild) ==
    IF parent = Null THEN [s EXCEPT !.root = newChild]
    ELSE IF s.left[parent] = oldChild THEN [s EXCEPT !.left[parent] = newChild]
    ELSE IF s.right[parent] = oldChild
         THEN [s EXCEPT !.right[parent] = newChild]
    ELSE s

\* DeleteNodeStructural of the insert+delete build.
DeleteNodeStructural(s, parent, node) ==
    IF node = Null THEN s
    ELSE IF s.left[node] = Null /\ s.right[node] = Null
    THEN FreeNode(ReplaceChild(s, parent, node, Null), node)
    ELSE IF s.left[node] = Null /\ s.right[node] # Null
    THEN FreeNode(ReplaceChild(s, parent, node, s.right[node]), node)
    ELSE IF s.left[node] # Null /\ s.right[node] = Null
    THEN FreeNode(ReplaceChild(s, parent, node, s.left[node]), node)
    ELSE LET pr == FindLeftmost(s, node, s.right[node])
             succParent == pr[1]
             succ == pr[2]
             a == [s EXCEPT !.value[node] = s.value[succ]]
             b == IF a.left[succParent] = succ
                  THEN [a EXCEPT !.left[succParent] = a.right[succ]]
                  ELSE [a EXCEPT !.right[succParent] = a.right[succ]]
         IN  FreeNode(b, succ)

\* ---------- the insertion without animation ----------
\* The node under which InsertValueImmediate's loop leaves parent.
RECURSIVE ImmediateParent(_, _, _, _)
ImmediateParent(s, parent, cur, v) ==
    IF cur = Null THEN parent
    ELSE ImmediateParent(s, cur,
                         IF v < s.value[cur] THEN s.left[cur]
                         ELSE s.right[cur],
                         v)

InsertValueImmediate(s, v) ==
    LET t == NewNode(s, v)
        n == t.allocated
    IN  IF s.root = Null THEN [t EXCEPT !.root = n]
        ELSE LET parent == ImmediateParent(s, Null, s.root, v)
             IN  IF v < s.value[parent] THEN [t EXCEPT !.left[parent] = n]
                 ELSE [t EXCEPT !.right[parent] = n]

\* ---------- what the drawing code reads ----------
\* The element a traversal highlights: path[index] (0-based in the source)
\* while the index is inside the path, else the last element.
HighlightOf(path, index) ==
    IF index < Len(path) THEN path[index + 1]
    ELSE IF path # <<>> THEN path[Len(path)]
    ELSE Null

delHighlight ==
    CASE delStage = "DEL_TRAVERSING" ->
             HighlightOf(delTraversalPath, delTraversalIndex)
      [] delStage = "DEL_HIGHLIGHT_TARGET" -> delTargetNode
      [] delStage = "DEL_HIGHLIGHT_SUCCESSOR" -> successorNode
      [] OTHER -> Null

insHighlight ==
    IF insStage = "INS_TRAVERSING"
    THEN HighlightOf(insTraversalPath, insTraversalIndex)
    ELSE Null

searchCurrent ==
    IF searchPath # <<>> /\ searchIndex > 0
    THEN searchPath[(IF searchIndex - 1 < Len(searchPath) - 1
                     THEN searchIndex - 1 ELSE Len(searchPath) - 1) + 1]
    ELSE Null

\* The first min(index, size) elements of a path, which get a ring.
Rings(path, index) ==
    {path[i] : i \in 1..(IF index < Len(path) THEN index ELSE Len(path))}

insRings ==
    IF insStage = "INS_TRAVERSING"
    THEN Rings(insTraversalPath, insTraversalIndex) ELSE {}

searchRings ==
    IF searchStage \in {"S_TRAVERSING", "S_FLASH_FOUND", "S_FLASH_NOTFOUND"}
    THEN Rings(searchPath, searchIndex) ELSE {}

searchFlashNode ==
    IF searchStage \in {"S_FLASH_FOUND", "S_FLASH_NOTFOUND"}
    THEN searchFinalNode ELSE Null

\* Every node reference the drawing code of a frame works with.
Exposed ==
    ({delHighlight, insHighlight, searchCurrent, animNode, searchFlashNode}
         \cup insRings \cup searchRings) \ {Null}

\* ---------- the insert+delete build ----------
\* The earlier build of the program: Enter in insert mode inserts at once,
\* Enter in delete mode starts the staged deletion, and neither looks at
\* delStage.  Its delete stages are those above without status messages.
InsertValue(s, v) ==
    LET t == NewNode(s, v)
        n == t.allocated
    IN  IF s.root = Null THEN [t EXCEPT !.root = n]
        ELSE LET parent == ImmediateParent(s, Null, s.root, v)
             IN  IF v < s.value[parent] THEN [t EXCEPT !.left[parent] = n]
                 ELSE [t EXCEPT !.right[parent] = n]

\* StartDeletion of this build goes back to DEL_IDLE at once when the
\* descent finds no target.
StartDeletion_InsertDelete(s, v) ==
    LET d == FindDescend(s, s.root, Null, v, <<>>)
        a == [s EXCEPT !.delTraversalPath = d.path,
                       !.delTraversalIndex = 0,
                       !.delFramesCounter = 0,
                       !.delStage = "DEL_TRAVERSING",
                       !.delTargetParent = d.parent,
                       !.delTargetNode = d.node,
                       !.successorParent = Null,
                       !.successorNode = Null,
                       !.animNode = Null,
                       !.animReplaceNode = Null,
                       !.animProgress = 0]
    IN  IF d.node = Null
        THEN [a EXCEPT !.delStage = "DEL_IDLE", !.delTraversalPath = <<>>]
        ELSE a

DelTraversing_InsertDelete(s) ==
    IF s.delFramesCounter + 1 >= DEL_STEP_FRAMES THEN
        IF s.delTraversalIndex < Len(s.delTraversalPath)
        THEN [s EXCEPT !.delFramesCounter = 0, !.delTraversalIndex = @ + 1]
        ELSE IF s.delTargetNode = Null
        THEN [s EXCEPT !.delFramesCounter = 0,
                       !.delStage = "DEL_IDLE",
                       !.delTraversalPath = <<>>,
                       !.delTraversalIndex = 0]
        ELSE [s EXCEPT !.delStage = "DEL_HIGHLIGHT_TARGET",
                       !.delFramesCounter = 0]
    ELSE [s EXCEPT !.delFramesCounter = @ + 1]

CommitMoveSuccessor_InsertDelete(s) ==
    LET t == s.delTargetNode
        sn == s.successorNode
        sp == s.successorParent
        a == [s EXCEPT !.value[t] = s.value[sn]]
        b == IF sp = Null THEN a
             ELSE IF a.left[sp] = sn THEN [a EXCEPT !.left[sp] = a.right[sn]]
             ELSE IF a.right[sp] = sn THEN [a EXCEPT !.right[sp] = a.right[sn]]
             ELSE a
        c == FreeNode(b, sn)
    IN  [c EXCEPT !.successorNode = Null,
                  !.successorParent = Null,
                  !.animNode = Null, !.animReplaceNode = Null,
                  !.delStage = "DEL_FINALIZE",
                  !.delFramesCounter = 0]

DelMoveSuccessor_InsertDelete(s) ==
    LET p == IF s.animProgress + 2 > AnimFull THEN AnimFull
             ELSE s.animProgress + 2
        c == [s EXCEPT !.animProgress = p]
    IN  IF p >= AnimFull THEN CommitMoveSuccessor_InsertDelete(c) ELSE c

\* With no parent recorded and a target that has two children by now, the
\* root reference is left as it is and the target is deleted all the same.
CommitMoveChildUp_InsertDelete(s) ==
    LET t == s.delTargetNode
        parent == s.delTargetParent
        child == IF s.left[t] # Null THEN s.left[t] ELSE s.right[t]
        a == IF parent = Null
             THEN IF s.left[t] # Null /\ s.right[t] # Null THEN s
                  ELSE [s EXCEPT !.root = child]
             ELSE IF s.left[parent] = t THEN [s EXCEPT !.left[parent] = child]
             ELSE IF s.right[parent] = t
                  THEN [s EXCEPT !.right[parent] = child]
             ELSE s
        b == FreeNode(a, t)
    IN  [b EXCEPT !.delTargetNode = Null, !.animNode = Null,
                  !.delStage = "DEL_FINALIZE"]

DelMoveChildUp_InsertDelete(s) ==
    LET p == IF s.animProgress + 2 > AnimFull THEN AnimFull
             ELSE s.animProgress + 2
        c == [s EXCEPT !.animProgress = p]
    IN  IF p >= AnimFull THEN CommitMoveChildUp_InsertDelete(c) ELSE c

CommitShrinkRemove_InsertDelete(s) ==
    LET parent == s.delTargetParent
        an == s.animNode
        a == IF parent = Null
             THEN [FreeNode(s, s.root) EXCEPT !.root = Null]
             ELSE FreeNode(IF s.left[parent] = an
                           THEN [s EXCEPT !.left[parent] = Null]
                           ELSE IF s.right[parent] = an
                           THEN [s EXCEPT !.right[parent] = Null]
                           ELSE s, an)
    IN  [a EXCEPT !.animNode = Null, !.delTargetNode = Null,
                  !.delStage = "DEL_FINALIZE"]

DelShrinkRemove_InsertDelete(s) ==
    IF s.animNode = Null THEN [s EXCEPT !.delStage = "DEL_FINALIZE"]
    ELSE LET c == [s EXCEPT !.animProgress = @ + 3]
         IN  IF c.animProgress >= AnimFull
             THEN CommitShrinkRemove_InsertDelete(c) ELSE c

\* The delete stages of one frame; DEL_REWIRING has no branch.
DeleteMachine_InsertDelete(s) ==
    CASE s.delStage = "DEL_TRAVERSING" -> DelTraversing_InsertDelete(s)
      [] s.delStage = "DEL_HIGHLIGHT_TARGET" ->
             DelHighlightTarget_InsertDelete(s)
      [] s.delStage = "DEL_HIGHLIGHT_SUCCESSOR" -> DelHighlightSuccessor(s)
      [] s.delStage = "DEL_MOVE_SUCCESSOR" -> DelMoveSuccessor_InsertDelete(s)
      [] s.delStage = "DEL_MOVE_CHILD_UP" -> DelMoveChildUp_InsertDelete(s)
      [] s.delStage = "DEL_SHRINK_REMOVE" -> DelShrinkRemove_InsertDelete(s)
      [] s.delStage = "DEL_FINALIZE" -> DelFinalize(s)
      [] OTHER -> s

\* The root reference points at a deleted node: what the program does from
\* here on is undefined, and the behaviours below stop there.
RootDangles == root # Null /\ root \notin nodes

\* Enter in insert mode (an id must be left for the new node).
RequestInsert_InsertDelete(v) ==
    /\ ~RootDangles
    /\ allocated < MaxNodes
    /\ Becomes(InsertValue(State, v))
    /\ mode' = "MODE_INSERT"

\* Enter in delete mode.
RequestDelete_InsertDelete(v) ==
    /\ ~RootDangles
    /\ Becomes(StartDeletion_InsertDelete(State, v))
    /\ mode' = "MODE_DELETE"

\* One frame.
Tick_InsertDelete ==
    /\ ~RootDangles
    /\ Becomes(DeleteMachine_InsertDelete(State))
    /\ mode' = "NONE"

NextInsertDelete ==
    \/ \E v \in Values : RequestInsert_InsertDelete(v)
    \/ \E v \in Values : RequestDelete_InsertDelete(v)
    \/ Tick_InsertDelete

SpecInsertDelete == Init /\ [][NextInsertDelete]_vars

\* ---------- vocabulary of the properties ----------
\* The nodes of the subtree below link n, following at most k links.
RECURSIVE Sub(_, _, _, _)
Sub(lf, rg, n, k) ==
    IF n = Null \/ k = 0 THEN {}
    ELSE {n} \cup Sub(lf, rg, lf[n], k - 1) \cup Sub(lf, rg, rg[n], k - 1)

Subtree(n) == Sub(left, right, n, HeapSize)
Reachable == Subtree(root)
ReachableNext == Sub(left', right', root', HeapSize)

AllIdle ==
    insStage = "INS_IDLE" /\ delStage = "DEL_IDLE" /\ searchStage = "S_IDLE"

treeVars == <<root, nodes, allocated, value, left, right>>
insVars == <<insStage, insTraversalPath, insTraversalIndex, insFramesCounter,
             insParent, insNewNode, insNewIsLeft, insFinalizeTimer,
             insValuePending>>
delVars == <<delStage, delTraversalPath, delTraversalIndex, delFramesCounter,
             delTargetParent, delTargetNode, successorParent, successorNode,
             animNode, animReplaceNode, animProgress, delValuePending>>
searchVars == <<searchStage, searchPath, searchIndex, searchFrames,
                flashCount, searchFinalNode, searchValuePending>>

BlockedKind(m) ==
    CASE m = "MODE_INSERT" -> "InsertBlocked"
      [] m = "MODE_DELETE" -> "DeleteBlocked"
      [] m = "MODE_SEARCH" -> "SearchBlocked"
      [] OTHER -> "-"

\* The step just taken was an Enter that was answered with "blocked".
BlockedStep ==
    /\ mode' # "NONE"
    /\ statusMessage' = Msg(BlockedKind(mode'), 0)
    /\ statusTimer' = STATUS_FRAMES
    /\ UNCHANGED <<treeVars, insVars, delVars, searchVars>>

\* A message set in the frame just run (the frame has counted it down once).
FreshStatus(k) ==
    mode = "NONE" /\ statusMessage.kind = k /\ statusTimer = STATUS_FRAMES - 1

\* ---------- C1 ----------
\* C1: in every state the tree is ordered: below every reachable node, all
\* values of the left subtree are smaller than the node's value and all
\* values of the right subtree are greater than or equal to it.
C1_BstOrdered ==
    \A n \in Reachable :
        /\ \A m \in Subtree(left[n]) : value[m] < value[n]
        /\ \A m \in Subtree(right[n]) : value[m] >= value[n]

\* A two-child delete of a duplicated value has just committed: the target
\* survives holding the value of its successor, which equals the deleted one.
C1_Witness ==
    /\ FreshStatus("Deleted")
    /\ delTargetNode # Null
    /\ value[delTargetNode] = delValuePending
    /\ left[delTargetNode] # Null

\* ---------- C2 ----------
C2_GateStep ==
    /\ insStage # "INS_IDLE" /\ mode' = "MODE_DELETE" => BlockedStep
    /\ delStage # "DEL_IDLE" /\ mode' = "MODE_INSERT" => BlockedStep
    /\ delStage = "DEL_IDLE" /\ delStage' # "DEL_IDLE"
           => insStage = "INS_IDLE" /\ mode' = "MODE_DELETE"
    /\ insStage = "INS_IDLE" /\ insStage' # "INS_IDLE"
           => delStage = "DEL_IDLE" /\ mode' = "MODE_INSERT"

\* C2: Insert and Delete are never active together; no step starts a Delete
\* while Insert is not idle, none starts an Insert while Delete is not idle,
\* and an Enter in delete mode during an Insert is answered with "blocked".
C2_InsertDeleteExclusive ==
    /\ [](insStage = "INS_IDLE" \/ delStage = "DEL_IDLE")
    /\ [][C2_GateStep]_vars

\* A delete was refused while an insert was on its way (any of its stages).
C2_Witness ==
    /\ mode = "MODE_DELETE"
    /\ statusMessage.kind = "DeleteBlocked"
    /\ insStage = "INS_FINALIZE"
    /\ delStage = "DEL_IDLE"

\* ---------- C3 ----------
\* C3: while Search is not idle, every Enter in insert or delete mode is
\* answered with "blocked", and no Insert and no Delete starts.
C3_BlockedDuringSearch ==
    [][searchStage # "S_IDLE" =>
          /\ mode' \in {"MODE_INSERT", "MODE_DELETE"} => BlockedStep
          /\ insStage = "INS_IDLE" => insStage' = "INS_IDLE"
          /\ delStage = "DEL_IDLE" => delStage' = "DEL_IDLE"]_vars

\* ---------- C4 ----------
C4_GateStep ==
    /\ mode' = "MODE_SEARCH" /\ ~AllIdle => BlockedStep
    /\ searchStage # "S_TRAVERSING" /\ searchStage' = "S_TRAVERSING"
           => AllIdle /\ mode' = "MODE_SEARCH"
    /\ searchValuePending' # searchValuePending
           => AllIdle /\ mode' = "MODE_SEARCH"

\* C4: an Enter in search mode starts a search only when Insert, Delete and
\* Search are all idle; otherwise it is answered with "blocked" and the
\* search context is left as it was.  No other step starts a search.
C4_SearchOnlyWhenIdle == [][C4_GateStep]_vars

\* A search was refused because an insert was settling.
C4_Witness ==
    /\ mode = "MODE_SEARCH"
    /\ statusMessage.kind = "SearchBlocked"
    /\ insStage = "INS_FINALIZE"
    /\ searchStage = "S_IDLE"

\* ---------- more vocabulary ----------
\* The nodes below link n in inorder, following at most k links.
RECURSIVE InorderOf(_, _, _, _)
InorderOf(lf, rg, n, k) ==
    IF n = Null \/ k = 0 THEN <<>>
    ELSE InorderOf(lf, rg, lf[n], k - 1) \o <<n>>
             \o InorderOf(lf, rg, rg[n], k - 1)

Inorder == InorderOf(left, right, root, HeapSize)

AllValues == 0..(IF MaxVal > SeedMaxVal THEN MaxVal ELSE SeedMaxVal)

\* How many reachable nodes hold v, now and after the step.
Count(v) == Cardinality({n \in Reachable : value[n] = v})
CountNext(v) == Cardinality({n \in ReachableNext : value'[n] = v})

\* The link slots (of the root reference and of the nodes that survive the
\* step) that the step rewrote.
ChangedSlots ==
    (IF root' # root THEN {<<"root", Null>>} ELSE {})
    \cup {<<"left", n>> : n \in {m \in nodes \cap nodes' : left'[m] # left[m]}}
    \cup {<<"right", n>> :
              n \in {m \in nodes \cap nodes' : right'[m] # right[m]}}

LinksUnchanged == UNCHANGED <<root, nodes, left, right>>

EntersFinalize == delStage # "DEL_FINALIZE" /\ delStage' = "DEL_FINALIZE"

\* ---------- C5 ----------
C5_Step ==
    /\ EntersFinalize =>
           /\ delStage \in {"DEL_MOVE_SUCCESSOR", "DEL_MOVE_CHILD_UP",
                            "DEL_SHRINK_REMOVE"}
           /\ animProgress < AnimFull /\ animProgress' >= AnimFull
           /\ nodes' \subseteq nodes
           /\ Cardinality(nodes \ nodes') = 1
           /\ Cardinality(ChangedSlots) = 1
    /\ delStage # "DEL_IDLE" /\ ~EntersFinalize => LinksUnchanged
    /\ delStage = "DEL_FINALIZE" => delStage' \in {"DEL_FINALIZE", "DEL_IDLE"}
    /\ delStage # "DEL_IDLE" /\ delStage' = "DEL_IDLE"
           => \/ delStage = "DEL_FINALIZE"
              \/ delStage = "DEL_TRAVERSING" /\ delTargetNode = Null

\* C5: a Delete that found its target frees exactly one node and rewrites
\* exactly one link slot, both in the one frame in which animProgress
\* reaches 1.0 in DEL_MOVE_SUCCESSOR, DEL_MOVE_CHILD_UP or DEL_SHRINK_REMOVE
\* (the frame that enters DEL_FINALIZE); every other step of the operation
\* frees nothing and leaves all links alone, and the operation ends only
\* through that frame.
C5_SingleCommit == [][C5_Step]_vars

\* A one-child delete has just committed below a parent.
C5_Witness ==
    /\ FreshStatus("Deleted")
    /\ delStage = "DEL_FINALIZE"
    /\ delTargetNode = Null
    /\ delTargetParent # Null
    /\ animProgress = AnimFull

\* ---------- C6 ----------
C6_Step ==
    delStage # "DEL_IDLE" \/ delStage' # "DEL_IDLE" =>
        /\ IF EntersFinalize
           THEN \A v \in AllValues :
                    CountNext(v) = Count(v) -
                        (IF v = delValuePending THEN 1 ELSE 0)
           ELSE \/ UNCHANGED <<root, left, right, value>>
                \/ \A v \in AllValues : CountNext(v) = Count(v)
        /\ delStage # "DEL_IDLE" => delValuePending' = delValuePending

\* C6: the commit frame of a Delete(v) takes exactly one occurrence of v out
\* of the tree's values and changes no other count; no other step from the
\* acceptance of the Delete to its return to idle changes any count.
C6_MultisetMinusOne == [][C6_Step]_vars

\* A two-child delete whose target is the root has just committed, and the
\* successor held another value than the deleted one.
C6_Witness ==
    /\ FreshStatus("Deleted")
    /\ delTargetNode # Null
    /\ delTargetNode = root
    /\ value[root] # delValuePending

\* ---------- C7 ----------
C7_Step ==
    /\ insStage = "INS_TRAVERSING" /\ insStage' # "INS_TRAVERSING" =>
           /\ insStage' = "INS_FINALIZE"
           /\ \E n \in NodeIds \ nodes :
                  /\ nodes' = nodes \cup {n}
                  /\ value'[n] = insValuePending
                  /\ left'[n] = Null /\ right'[n] = Null
                  /\ ReachableNext = Reachable \cup {n}
                  /\ root' = IF root = Null THEN n ELSE root
                  /\ \A m \in Reachable :
                         /\ value'[m] = value[m]
                         /\ value[m] = insValuePending
                                /\ n \in Sub(left', right', m, HeapSize)
                            => n \in Sub(left', right', right'[m], HeapSize)
                  /\ \A v \in AllValues :
                         CountNext(v) = Count(v) +
                             (IF v = insValuePending THEN 1 ELSE 0)
    /\ insStage # "INS_IDLE"
           /\ ~(insStage = "INS_TRAVERSING" /\ insStage' # "INS_TRAVERSING")
           => UNCHANGED treeVars
    /\ insStage # "INS_IDLE" => insValuePending' = insValuePending
    /\ insStage = "INS_FINALIZE" => insStage' \in {"INS_FINALIZE", "INS_IDLE"}
    /\ insStage # "INS_IDLE" /\ insStage' = "INS_IDLE"
           => insStage = "INS_FINALIZE"

\* C7: an accepted Insert(v) creates exactly one node, in the frame that
\* leaves INS_TRAVERSING: a leaf holding v, root of an empty tree, and
\* otherwise added to the reachable nodes without changing any of them; it
\* lies in the right subtree of every node above it that holds v.  No other
\* step of the Insert creates or frees a node.
C7_InsertAddsOneLeaf == [][C7_Step]_vars

\* A value that the root already holds has just been attached.
C7_Witness ==
    /\ FreshStatus("Inserted")
    /\ insNewNode # Null /\ insNewNode # root
    /\ insNewNode \in Reachable
    /\ value[insNewNode] = value[root]

\* ---------- C8 ----------
C8_Step ==
    LET t == delTargetNode
    IN  (nodes' # nodes /\ t # Null /\ left[t] # Null /\ right[t] # Null) =>
        LET io == Inorder
            i == CHOOSE k \in 1..Len(io) : io[k] = t
            succ == io[i + 1]
        IN  /\ nodes \ nodes' = {succ} /\ nodes' \subseteq nodes
            /\ t \in ReachableNext
            /\ root' = root
            /\ \A p \in nodes' :
                   /\ left[p] = t => left'[p] = t
                   /\ right[p] = t => right'[p] = t
            /\ left'[t] = left[t]
            /\ value'[t] = value[succ]
            /\ IF right[t] = succ
               THEN right'[t] = right[succ]
               ELSE /\ right'[t] = right[t]
                    /\ \E p \in Subtree(right[t]) :
                           left[p] = succ /\ left'[p] = right[succ]
            /\ ChangedSlots \subseteq
                   {<<"right", t>>} \cup {<<"left", p>> : p \in nodes}

\* C8: the step that frees a node while the delete target t has two children
\* keeps t in the tree in the same slot with the same left child, gives t the
\* value of its inorder successor, frees exactly that successor, and puts the
\* successor's former right subtree into the slot that held the successor.
C8_TwoChildIdentity == [][C8_Step]_vars

\* The fourth node, inserted below the left link of the root's right child,
\* was the successor of the root and has just been freed.
C8_Witness ==
    /\ FreshStatus("Deleted")
    /\ delTargetNode = 1 /\ root = 1
    /\ allocated = 4 /\ nodes = {1, 2, 3}
    /\ left[1] = 2 /\ right[1] = 3 /\ left[3] = Null

\* ---------- C9 ----------
C9_Step ==
    /\ delStage = "DEL_IDLE" /\ delStage' # "DEL_IDLE"
           /\ (\A n \in Reachable : value[n] # delValuePending')
           => delStage' = "DEL_TRAVERSING" /\ delTargetNode' = Null
    /\ delStage = "DEL_TRAVERSING" /\ delTargetNode = Null =>
           /\ UNCHANGED treeVars
           /\ delTargetNode' = Null
           /\ delValuePending' = delValuePending
           /\ delStage' \in {"DEL_TRAVERSING", "DEL_IDLE"}
           /\ delStage' = "DEL_IDLE"
                  => statusMessage' = Msg("DeleteNotFound", delValuePending)

\* C9: a Delete(v) accepted on a tree without v records no target; from then
\* on it changes nothing in the tree, and it returns to idle straight from
\* DEL_TRAVERSING with the status "Value v not found for deletion".
C9_DeleteNotFound == [][C9_Step]_vars

\* A delete of an absent value has just ended on a tree that is not empty.
C9_Witness ==
    /\ FreshStatus("DeleteNotFound")
    /\ delStage = "DEL_IDLE"
    /\ root # Null
    /\ \A n \in Reachable : value[n] # statusMessage.v

\* ---------- C10 ----------
C10_Started(m) ==
    CASE m = "MODE_INSERT" ->
             insStage = "INS_IDLE" /\ insStage' = "INS_TRAVERSING"
      [] m = "MODE_DELETE" ->
             delStage = "DEL_IDLE" /\ delStage' = "DEL_TRAVERSING"
      [] m = "MODE_SEARCH" ->
             searchStage = "S_IDLE" /\ searchStage' = "S_TRAVERSING"
      [] OTHER -> FALSE

C10_Step ==
    /\ mode' # "NONE" =>
           \/ BlockedStep
           \/ C10_Started(mode') /\ UNCHANGED <<statusMessage, statusTimer>>
    /\ mode' = "NONE" =>
           /\ insStage = "INS_IDLE" => insStage' = "INS_IDLE"
           /\ delStage = "DEL_IDLE" => delStage' = "DEL_IDLE"
           /\ searchStage = "S_IDLE" => searchStage' = "S_IDLE"

\* C10: every Enter either starts the requested operation without touching
\* the status, or sets the "blocked" status of its mode and changes nothing
\* else; and no frame starts an operation, so a refused request is not kept.
C10_BlockedChangesNothing == [][C10_Step]_vars

\* An insert was refused while a delete was animating its commit.
C10_Witness ==
    /\ mode = "MODE_INSERT"
    /\ statusMessage.kind = "InsertBlocked"
    /\ delStage = "DEL_SHRINK_REMOVE"
    /\ insStage = "INS_IDLE"

\* ---------- C11 ----------
\* The tree of a program state: root, live nodes, links and values.
TreeOf(s) == <<s.root, s.nodes, s.left, s.right, s.value>>

AttachTick ==
    mode' = "NONE" /\ insStage = "INS_TRAVERSING" /\ insStage' = "INS_FINALIZE"

CommitTick ==
    /\ mode' = "NONE"
    /\ delStage \in {"DEL_MOVE_SUCCESSOR", "DEL_MOVE_CHILD_UP",
                     "DEL_SHRINK_REMOVE"}
    /\ delStage' = "DEL_FINALIZE"

C11_Step ==
    \/ UNCHANGED <<root, nodes, left, right, value>>
    \/ AttachTick
    \/ CommitTick

\* Inside a frame: the search machine and the blocks after it hand on the
\* tree that the insert and delete machines left.
C11_SearchBlock ==
    LET a == DeleteMachine(InsertMachine(State))
    IN  /\ TreeOf(SearchMachine(a)) = TreeOf(a)
        /\ TreeOf(Frame(State)) = TreeOf(a)

\* C11: the set of nodes, the links, the root and the values change only in
\* the frame in which an Insert attaches (INS_TRAVERSING to INS_FINALIZE) and
\* in the frame in which a Delete commits (a move or shrink stage to
\* DEL_FINALIZE); every Enter, every other frame of an Insert or a Delete and
\* every step of the search machine leaves them as they were.
C11_TreeChangesOnlyAtCommit == [][C11_Step]_vars /\ []C11_SearchBlock

\* An insert has just attached its node in a frame in which the search
\* machine was flashing: the search step of that frame is not what changed
\* the tree.
C11_Witness ==
    /\ FreshStatus("Inserted")
    /\ insStage = "INS_FINALIZE"
    /\ searchStage = "S_FLASH_NOTFOUND"
    /\ root # Null

\* ---------- C12 ----------
\* Insert(v) accepted and run to idle, then Delete(v) accepted and run to idle.
RoundTrip(s, v) ==
    RunToIdle(DeleteRequest(RunToIdle(InsertRequest(s, v)), v))

\* How many reachable nodes of s hold each value.
CountsOf(s) ==
    LET reach == Sub(s.left, s.right, s.root, HeapSize)
    IN  [x \in AllValues |-> Cardinality({n \in reach : s.value[n] = x})]

\* C12: from every idle state with a node id to spare and for every value v,
\* Insert(v) run to idle followed by Delete(v) run to idle ends (both are
\* accepted) in a tree that holds every value as many times as before.
C12_RoundTrip ==
    (AllIdle /\ allocated < HeapSize) =>
        \A v \in SeedValues :
            LET r == RoundTrip(State, v)
            IN  /\ r.allocated = allocated + 1
                /\ r.insValuePending = v /\ r.delValuePending = v
                /\ CountsOf(r) = CountsOf(State)

\* The root holds v and has two children: the Delete(v) of the round trip
\* takes the old occurrence out, the node attached by the Insert(v) stays,
\* so the tree is not the one it was while the values are.
C12_Witness ==
    /\ AllIdle /\ allocated < HeapSize
    /\ root # Null /\ left[root] # Null /\ right[root] # Null
    /\ LET r == RoundTrip(State, value[root])
       IN  /\ r.allocated \in r.nodes
           /\ r.nodes # nodes
           /\ r.root = root

\* ---------- C13 ----------
\* The state machines whose stage, counters or context the step changed.
Advanced ==
    (IF insVars' # insVars THEN {"insert"} ELSE {})
    \cup (IF delVars' # delVars THEN {"delete"} ELSE {})
    \cup (IF searchVars' # searchVars THEN {"search"} ELSE {})

\* C13: no frame changes the stage, counters or context of more than one of
\* the insert, delete and search state machines.
C13_OneProcessPerTick == [][mode' = "NONE" => Cardinality(Advanced) <= 1]_vars

\* ---------- C14 ----------
C14_Step ==
    /\ ~((insStage = "INS_TRAVERSING" /\ insStage' = "INS_FINALIZE")
         /\ EntersFinalize)
    /\ Cardinality(nodes' \ nodes) + Cardinality(nodes \ nodes') <= 1
    /\ allocated' \in {allocated, allocated + 1}
    /\ Cardinality(ChangedSlots) <= 1
    /\ nodes' # nodes => mode' = "NONE"

\* C14: no step holds both an Insert attach and a Delete commit, and every
\* step creates or frees at most one node in all and rewrites at most one
\* link slot of the root reference and the surviving nodes; only frames do.
C14_OneCommitPerTick == [][C14_Step]_vars

\* The second node has just been attached to a tree from which the first
\* node was deleted before: both primitives ran, each in a frame of its own.
C14_Witness ==
    /\ FreshStatus("Inserted")
    /\ allocated = 2 /\ nodes = {2} /\ root = 2

\* ---------- C15 ----------
C15_Step ==
    mode' = "NONE" =>
        /\ insStage # "INS_IDLE" => insVars' # insVars
        /\ delStage # "DEL_IDLE" => delVars' # delVars
        /\ searchStage # "S_IDLE" => searchVars' # searchVars

\* C15: in every frame, each state machine that is not idle advances: its
\* stage, a counter or its progress changes; none stands still for another.
C15_NoWaiting == [][C15_Step]_vars

C17_Inv ==
    /\ searchStage = "S_IDLE" \/ delStage = "DEL_IDLE"
    /\ \A i \in 1..Len(searchPath) :
           searchPath[i] \in nodes /\ searchPath[i] \in Reachable
    /\ searchFinalNode # Null =>
           searchFinalNode \in nodes /\ searchFinalNode \in Reachable

C17_Step ==
    /\ searchStage # "S_IDLE" => nodes \subseteq nodes'
    /\ searchStage # "S_IDLE" /\ mode' = "MODE_DELETE" => BlockedStep
    /\ delStage # "DEL_IDLE" /\ mode' = "MODE_SEARCH" => BlockedStep

\* C17: Search and Delete are never active together (each is refused while
\* the other runs); every node in searchPath, and searchFinalNode when set,
\* is a live node reachable from root; no step frees a node while the search
\* is not idle.
C17_SearchNeverTorn == []C17_Inv /\ [][C17_Step]_vars

\* A delete was refused while a search that recorded a path of two nodes
\* was flashing its final node.
C17_Witness ==
    /\ mode = "MODE_DELETE"
    /\ statusMessage.kind = "DeleteBlocked"
    /\ searchStage = "S_FLASH_FOUND"
    /\ Len(searchPath) = 2
    /\ searchFinalNode = searchPath[2]

\* ---------- C18 ----------
\* path is the descent for v in the tree (rt, lf, rg, val): from the root,
\* left when v is smaller and right otherwise, up to the first node that
\* holds v or the last node before the descent leaves the tree.
IsDescent(rt, lf, rg, val, path, v) ==
    LET n == Len(path)
        step(p) == IF v < val[p] THEN lf[p] ELSE rg[p]
    IN  /\ rt = Null => n = 0
        /\ rt # Null => n > 0 /\ path[1] = rt
        /\ \A i \in 1..(n - 1) :
               val[path[i]] # v /\ path[i + 1] = step(path[i])
        /\ n > 0 => val[path[n]] = v \/ step(path[n]) = Null

C18_Step ==
    /\ searchStage = "S_IDLE" /\ searchStage' # "S_IDLE" =>
           IsDescent(root', left', right', value', searchPath',
                     searchValuePending')
    /\ delStage = "DEL_IDLE" /\ delStage' # "DEL_IDLE" =>
           IsDescent(root', left', right', value', delTraversalPath',
                     delValuePending')
    /\ searchStage # "S_IDLE" /\ searchStage' # "S_IDLE" =>
           UNCHANGED <<searchPath, searchValuePending>>
    /\ delStage # "DEL_IDLE" /\ delStage' # "DEL_IDLE" =>
           UNCHANGED <<delTraversalPath, delValuePending>>
    /\ searchStage = "S_TRAVERSING" /\ searchStage' # "S_TRAVERSING" =>
           /\ searchIndex = Len(searchPath)
           /\ searchStage' =
                  IF /\ searchPath # <<>>
                     /\ value[searchPath[Len(searchPath)]] = searchValuePending
                  THEN "S_FLASH_FOUND" ELSE "S_FLASH_NOTFOUND"

\* C18: the path recorded when a Search or a Delete of v is accepted is the
\* descent for v: empty for an empty tree, else from the root, each next
\* node the left child when v is smaller than the value and the right child
\* otherwise, ending at the first node that holds v or at the last node
\* before leaving the tree; the path is kept to the end of the operation,
\* and when it is exhausted the search goes to S_FLASH_FOUND exactly when
\* its last node holds v, to S_FLASH_NOTFOUND otherwise.
C18_PathIsDescent == [][C18_Step]_vars

\* A search has just left a tree of two nodes below the second node without
\* meeting its value.
C18_Witness ==
    /\ FreshStatus("NotFound")
    /\ searchStage = "S_FLASH_NOTFOUND"
    /\ Len(searchPath) = 2
    /\ value[searchPath[2]] # searchValuePending

\* ---------- C19 ----------
\* The values of a sequence of nodes, before and after the step.
ValuesAlong(path) == [i \in 1..Len(path) |-> value[path[i]]]
InorderValuesNext ==
    LET io == InorderOf(left', right', root', HeapSize)
    IN  [i \in 1..Len(io) |-> value'[io[i]]]

\* No node of the example tree has been deleted yet.
ScenarioTree == nodes = 1..Len(ScenarioSeq)

C19_Step ==
    ScenarioTree =>
        /\ ValuesAlong(Inorder) = <<20, 30, 40, 50, 70>>
        /\ searchStage = "S_IDLE" /\ searchStage' # "S_IDLE" =>
               [i \in 1..Len(searchPath') |-> value[searchPath'[i]]]
                   = <<50, 30, 40>>
        /\ searchStage = "S_TRAVERSING" /\ searchStage' # "S_TRAVERSING" =>
               /\ searchStage' = "S_FLASH_FOUND"
               /\ statusMessage' = Msg("Found", 40)
               /\ value[searchFinalNode'] = 40
        /\ delStage = "DEL_HIGHLIGHT_TARGET"
               /\ delStage' # "DEL_HIGHLIGHT_TARGET" =>
               /\ delStage' = "DEL_HIGHLIGHT_SUCCESSOR"
               /\ value[delTargetNode] = 30
               /\ {value[left[delTargetNode]], value[right[delTargetNode]]}
                      = {20, 40}
        /\ nodes' # nodes =>
               /\ delStage = "DEL_MOVE_SUCCESSOR"
               /\ \E t, l \in nodes :
                      /\ value[t] = 30 /\ value[l] = 40
                      /\ left[l] = Null /\ right[l] = Null
                      /\ nodes' = nodes \ {l}
                      /\ t \in ReachableNext
                      /\ value'[t] = 40
               /\ InorderValuesNext = <<20, 40, 50, 70>>
               /\ statusMessage' = Msg("Deleted", 30)

\* C19: in the tree built by inserting 50, 30, 70, 20, 40 (inorder 20, 30,
\* 40, 50, 70), an accepted search for 40 records the nodes holding 50, 30,
\* 40 and ends in S_FLASH_FOUND with "Found 40"; an accepted delete of 30
\* goes from DEL_HIGHLIGHT_TARGET to DEL_HIGHLIGHT_SUCCESSOR (its target
\* has the children 20 and 40), and its commit in DEL_MOVE_SUCCESSOR writes
\* 40 into the node that held 30, frees the leaf that held 40 and leaves
\* the inorder sequence 20, 40, 50, 70.
C19_Scenario == [][C19_Step]_vars

\* The search for 40 has run and ended, and the delete of 30 has just
\* committed: four nodes are left, in order 20, 40, 50, 70.
C19_Witness ==
    /\ FreshStatus("Deleted")
    /\ searchValuePending = 40 /\ searchStage = "S_IDLE"
    /\ delValuePending = 30
    /\ ValuesAlong(Inorder) = <<20, 40, 50, 70>>

\* ---------- C20 ----------
\* The link slots of live nodes that point at n.
ParentSlots(n) ==
    {<<"left", p>> : p \in {q \in nodes : left[q] = n}}
    \cup {<<"right", p>> : p \in {q \in nodes : right[q] = n}}

\* C20: in every state, every node reachable from root is live, the root is
\* in no node's slot, every other reachable node is in exactly one slot of
\* exactly one node, and walking the links from the root meets every
\* reachable node once (no cycle, no sharing).
C20_ProperTree ==
    /\ Reachable \subseteq nodes
    /\ root # Null => ParentSlots(root) = {}
    /\ \A n \in Reachable \ {root} : Cardinality(ParentSlots(n)) = 1
    /\ Len(InorderOf(left, right, root, HeapSize + 1)) = Cardinality(Reachable)

\* A delete has just put the child of the old root, with a subtree of its
\* own, in the root's place.
C20_Witness ==
    /\ FreshStatus("Deleted")
    /\ root # Null /\ root # 1
    /\ 1 \notin nodes
    /\ Cardinality(Reachable) >= 2

\* ---------- C21 ----------
OutcomeKinds == {"Inserted", "Deleted", "DeleteNotFound", "NotFound", "Found"}

\* The step was a frame that set the message m.
Emits(m) ==
    mode' = "NONE" /\ statusMessage' = m /\ statusTimer' = STATUS_FRAMES - 1

\* The steps at which an operation reports its outcome.
InsertAttaches == insStage = "INS_TRAVERSING" /\ insStage' = "INS_FINALIZE"
DeleteCommits == EntersFinalize
DeleteMisses == delStage = "DEL_TRAVERSING" /\ delStage' = "DEL_IDLE"
SearchHits == searchStage = "S_TRAVERSING" /\ searchStage' = "S_FLASH_FOUND"
SearchMisses ==
    searchStage = "S_TRAVERSING" /\ searchStage' = "S_FLASH_NOTFOUND"

C21_Step ==
    \* each outcome step sets its message, with the value that was entered
    /\ InsertAttaches => Emits(Msg("Inserted", insValuePending))
    /\ DeleteCommits => Emits(Msg("Deleted", delValuePending))
    /\ DeleteMisses => Emits(Msg("DeleteNotFound", delValuePending))
    /\ SearchHits => Emits(Msg("Found", searchValuePending))
    /\ SearchMisses => Emits(Msg("NotFound", searchValuePending))
    \* no other step sets an outcome message
    /\ mode' = "NONE" /\ statusTimer' = STATUS_FRAMES - 1 =>
           CASE statusMessage'.kind = "Inserted" -> InsertAttaches
             [] statusMessage'.kind = "Deleted" -> DeleteCommits
             [] statusMessage'.kind = "DeleteNotFound" -> DeleteMisses
             [] statusMessage'.kind = "Found" -> SearchHits
             [] statusMessage'.kind = "NotFound" -> SearchMisses
             [] OTHER -> TRUE
    /\ statusMessage' # statusMessage /\ statusMessage'.kind \in OutcomeKinds
           => mode' = "NONE" /\ statusTimer' = STATUS_FRAMES - 1
    \* every operation passes one outcome step, once, on its way to idle
    /\ insStage' = "INS_TRAVERSING" /\ insStage # "INS_TRAVERSING"
           => insStage = "INS_IDLE" /\ mode' = "MODE_INSERT"
    /\ insStage' = "INS_FINALIZE" /\ insStage # "INS_FINALIZE"
           => InsertAttaches
    /\ insStage' = "INS_IDLE" /\ insStage # "INS_IDLE"
           => insStage = "INS_FINALIZE"
    /\ delStage' = "DEL_TRAVERSING" /\ delStage # "DEL_TRAVERSING"
           => delStage = "DEL_IDLE" /\ mode' = "MODE_DELETE"
    /\ DeleteCommits => nodes' # nodes
    /\ delStage' = "DEL_IDLE" /\ delStage # "DEL_IDLE"
           => DeleteMisses \/ delStage = "DEL_FINALIZE"
    /\ delStage = "DEL_FINALIZE" => delStage' \in {"DEL_FINALIZE", "DEL_IDLE"}
    /\ searchStage' = "S_TRAVERSING" /\ searchStage # "S_TRAVERSING"
           => searchStage = "S_IDLE" /\ mode' = "MODE_SEARCH"
    /\ searchStage' = "S_IDLE" /\ searchStage # "S_IDLE"
           => searchStage \in {"S_FLASH_FOUND", "S_FLASH_NOTFOUND"}
    /\ searchStage \in {"S_FLASH_FOUND", "S_FLASH_NOTFOUND"}
           => searchStage' \in {searchStage, "S_IDLE"}

DelTargetStages ==
    {"DEL_HIGHLIGHT_TARGET", "DEL_HIGHLIGHT_SUCCESSOR", "DEL_MOVE_SUCCESSOR",
     "DEL_MOVE_CHILD_UP", "DEL_SHRINK_REMOVE"}

C22_Step ==
    \* an Enter leaves the context of every running operation alone
    /\ mode' # "NONE" /\ insStage # "INS_IDLE" => UNCHANGED insVars
    /\ mode' # "NONE" /\ delStage # "DEL_IDLE" => UNCHANGED delVars
    /\ mode' # "NONE" /\ searchStage # "S_IDLE" => UNCHANGED searchVars
    \* the requested value stays until the operation is over
    /\ insStage # "INS_IDLE" => insValuePending' = insValuePending
    /\ delStage # "DEL_IDLE" => delValuePending' = delValuePending
    /\ searchStage # "S_IDLE" => searchValuePending' = searchValuePending
    \* a running insert leaves INS_TRAVERSING only by attaching one node
    \* that holds the requested value
    /\ insStage = "INS_TRAVERSING" /\ insStage' # "INS_TRAVERSING" =>
           /\ AttachTick
           /\ nodes' = nodes \cup {insNewNode'}
           /\ insNewNode' \notin nodes
           /\ insNewNode' \in ReachableNext
           /\ value'[insNewNode'] = insValuePending
    \* a delete that found its target leaves these stages only by a commit
    \* that frees one node
    /\ delStage \in DelTargetStages /\ delStage' \notin DelTargetStages =>
           /\ CommitTick
           /\ nodes' \subseteq nodes
           /\ Cardinality(nodes \ nodes') = 1
    /\ delStage \in DelTargetStages /\ delStage' \in DelTargetStages =>
           nodes' = nodes

TargetChildren ==
    (IF left[delTargetNode] # Null THEN 1 ELSE 0)
    + (IF right[delTargetNode] # Null THEN 1 ELSE 0)

\* The delete path has been shown to its end.
DelPathRevealed == delTraversalIndex = Len(delTraversalPath)

C23_Step ==
    delStage' # delStage =>
        CASE delStage = "DEL_IDLE" ->
                 delStage' = "DEL_TRAVERSING" /\ mode' = "MODE_DELETE"
          [] delStage = "DEL_TRAVERSING" ->
                 /\ mode' = "NONE"
                 /\ DelPathRevealed
                 /\ delFramesCounter + 1 >= DEL_STEP_FRAMES
                 /\ IF delTargetNode = Null
                    THEN delStage' = "DEL_IDLE" /\ nodes' = nodes
                    ELSE delStage' = "DEL_HIGHLIGHT_TARGET"
          [] delStage = "DEL_HIGHLIGHT_TARGET" ->
                 /\ mode' = "NONE"
                 /\ DelPathRevealed
                 /\ delFramesCounter + 1 >= DEL_PAUSE_FRAMES
                 /\ delTargetNode \in nodes
                 /\ delStage' = CASE TargetChildren = 0 -> "DEL_SHRINK_REMOVE"
                                  [] TargetChildren = 1 -> "DEL_MOVE_CHILD_UP"
                                  [] OTHER -> "DEL_HIGHLIGHT_SUCCESSOR"
                 /\ nodes' = nodes
          [] delStage = "DEL_HIGHLIGHT_SUCCESSOR" ->
                 /\ mode' = "NONE"
                 /\ delFramesCounter + 1 >= DEL_PAUSE_FRAMES
                 /\ delStage' = "DEL_MOVE_SUCCESSOR"
                 /\ nodes' = nodes
          [] delStage \in {"DEL_MOVE_SUCCESSOR", "DEL_MOVE_CHILD_UP",
                           "DEL_SHRINK_REMOVE"} ->
                 /\ mode' = "NONE"
                 /\ DelPathRevealed
                 /\ delStage' = "DEL_FINALIZE"
                 /\ nodes' # nodes
          [] delStage = "DEL_FINALIZE" ->
                 mode' = "NONE" /\ delStage' = "DEL_IDLE" /\ nodes' = nodes
          [] OTHER -> FALSE

\* C23: delStage changes only along DEL_IDLE -> DEL_TRAVERSING (an accepted
\* Enter), DEL_TRAVERSING -> DEL_IDLE (no target) or DEL_HIGHLIGHT_TARGET
\* (target), DEL_HIGHLIGHT_TARGET after its pause -> DEL_SHRINK_REMOVE
\* exactly for no child, DEL_MOVE_CHILD_UP exactly for one child,
\* DEL_HIGHLIGHT_SUCCESSOR exactly for two, DEL_HIGHLIGHT_SUCCESSOR ->
\* DEL_MOVE_SUCCESSOR, the three move stages -> DEL_FINALIZE with the
\* commit, DEL_FINALIZE -> DEL_IDLE; the traversal is left only when the
\* whole path has been shown, so no commit comes before that.
C23_DeleteStageGraph == [][C23_Step]_vars

\* A target with two children has been highlighted and the machine went on
\* to highlight its successor.
C23_Witness ==
    /\ delStage = "DEL_HIGHLIGHT_SUCCESSOR"
    /\ left[delTargetNode] # Null /\ right[delTargetNode] # Null
    /\ DelPathRevealed /\ Len(delTraversalPath) >= 2

\* ---------- C24 ----------
\* The state in which the pause of DEL_HIGHLIGHT_TARGET is over.
PauseDue == [State EXCEPT !.delFramesCounter = DEL_PAUSE_FRAMES - 1]

C24_Inv ==
    /\ \A n \in Reachable :
           right[n] # Null =>
               /\ FindInorderSuccessor(State, n)[2] \in nodes
               /\ FindInorderSuccessor(State, n)[1] \in nodes
    /\ delStage = "DEL_HIGHLIGHT_TARGET" =>
           /\ DelHighlightTarget(PauseDue).delStage # "DEL_FINALIZE"
           /\ DelHighlightTarget_InsertDelete(PauseDue).delStage
                  # "DEL_REWIRING"
    /\ delStage = "DEL_HIGHLIGHT_SUCCESSOR" => successorNode \in nodes

C24_Step == ~(delStage = "DEL_HIGHLIGHT_TARGET" /\ delStage' = "DEL_FINALIZE")

\* C24: FindInorderSuccessor returns a node for every node that has a right
\* child, so a target with two children always gets a successor: the step
\* from DEL_HIGHLIGHT_TARGET to DEL_FINALIZE is never taken, and the same
\* decision of the insert+delete build never chooses DEL_REWIRING.
C24_FallbackUnreachable == []C24_Inv /\ [][C24_Step]_vars

\* A two-child target got a successor that lies deeper than its right
\* child.
C24_Witness ==
    /\ delStage = "DEL_HIGHLIGHT_SUCCESSOR"
    /\ successorNode \in nodes
    /\ successorParent # delTargetNode
    /\ left[successorParent] = successorNode

\* ---------- C25 ----------
\* The last node of the insert path (Null for the empty path).
InsLast ==
    IF insTraversalPath = <<>> THEN Null
    ELSE insTraversalPath[Len(insTraversalPath)]

\* The frame attached the node n as the insert path says.
AttachedAt(n) ==
    /\ n \notin nodes
    /\ nodes' = nodes \cup {n}
    /\ value' = [value EXCEPT ![n] = insValuePending]
    /\ insParent = InsLast
    /\ IF InsLast = Null
       THEN /\ root = Null /\ root' = n
            /\ left' = left /\ right' = right
       ELSE /\ root' = root
            /\ insNewIsLeft = (insValuePending < value[InsLast])
            /\ IF insValuePending < value[InsLast]
               THEN left' = [left EXCEPT ![InsLast] = n] /\ right' = right
               ELSE right' = [right EXCEPT ![InsLast] = n] /\ left' = left

C25_Step ==
    insStage = "INS_TRAVERSING" =>
        IF mode' # "NONE" THEN UNCHANGED <<insVars, treeVars>>
        ELSE IF insFramesCounter + 1 < INS_STEP_FRAMES
        THEN /\ insFramesCounter' = insFramesCounter + 1
             /\ insTraversalIndex' = insTraversalIndex
             /\ insStage' = "INS_TRAVERSING"
             /\ UNCHANGED treeVars
        ELSE IF insTraversalIndex < Len(insTraversalPath)
        THEN /\ insFramesCounter' = 0
             /\ insTraversalIndex' = insTraversalIndex + 1
             /\ insStage' = "INS_TRAVERSING"
             /\ UNCHANGED treeVars
        ELSE /\ insFramesCounter' = 0
             /\ insTraversalIndex = Len(insTraversalPath)
             /\ insTraversalIndex' = insTraversalIndex
             /\ insStage' = "INS_FINALIZE"
             /\ AttachedAt(insNewNode')

\* C25: while insStage is INS_TRAVERSING a frame either counts
\* insFramesCounter up or, every INS_STEP_FRAMES-th frame, resets it and
\* raises insTraversalIndex by one, the tree staying as it is; the node is
\* attached only in such a frame that finds the index equal to the path
\* length (at once for the empty path of an empty tree, as root), under
\* the last node of the path on the side given by comparing the value with
\* that node's value.
C25_InsertTraversal == [][C25_Step]_vars

\* A node has just been attached under the last node of a path that was
\* shown to its end.
C25_Witness ==
    /\ FreshStatus("Inserted")
    /\ insStage = "INS_FINALIZE"
    /\ insTraversalIndex = Len(insTraversalPath)
    /\ insTraversalPath # <<>>
    /\ insNewNode \in {left[InsLast], right[InsLast]}

\* ---------- C26 ----------
\* The slot that StartInsertion recorded for the new node is free.
InsSlotAbsent ==
    IF insParent = Null THEN root = Null /\ nodes = {}
    ELSE /\ insParent \in nodes
         /\ IF insNewIsLeft THEN left[insParent] = Null
            ELSE right[insParent] = Null

C26_Step ==
    /\ insStage = "INS_TRAVERSING" => InsSlotAbsent
    /\ AttachTick =>
           /\ insParent # Null => insParent \in Reachable
           \* the links written were null before
           /\ root' # root => root = Null
           /\ \A n \in NodeIds :
                  /\ left'[n] # left[n] => left[n] = Null /\ n = insParent
                  /\ right'[n] # right[n] => right[n] = Null /\ n = insParent
           \* nothing that was in the tree has been cut off
           /\ Reachable \subseteq ReachableNext
           /\ ReachableNext = Reachable \cup {insNewNode'}

\* C26: the frame that attaches the new node writes only a link that was
\* null: root when no parent was recorded, and then the tree is empty;
\* otherwise the recorded side of the recorded parent, which is still in
\* the tree; every node of the tree stays in it.
C26_AttachWritesFreeSlot == [][C26_Step]_vars

\* A node has just been attached on the left of its parent, whose other
\* link is as before.
C26_Witness ==
    /\ FreshStatus("Inserted")
    /\ insParent \in nodes
    /\ insNewIsLeft
    /\ left[insParent] = insNewNode
    /\ insNewNode \in nodes
    /\ right[insParent] = Null

\* ---------- C27 ----------
\* The target is where StartDeletion found it.
TargetInPlace ==
    /\ delTargetNode \in nodes
    /\ delTargetNode \in Reachable
    /\ value[delTargetNode] = delValuePending
    /\ IF delTargetParent = Null THEN root = delTargetNode
       ELSE /\ delTargetParent \in Reachable
            /\ delTargetNode \in {left[delTargetParent], right[delTargetParent]}

\* The successor is where the end of DEL_HIGHLIGHT_TARGET found it.
SuccessorInPlace ==
    /\ successorNode \in nodes
    /\ successorParent \in nodes
    /\ successorParent \in Subtree(delTargetNode)
    /\ successorNode \in {left[successorParent], right[successorParent]}
    /\ successorNode \in Subtree(right[delTargetNode])
    /\ left[successorNode] = Null
    /\ \A n \in Subtree(right[delTargetNode]) :
           value[successorNode] <= value[n]
    /\ animNode = successorNode /\ animReplaceNode = delTargetNode

C27_Step ==
    CommitTick =>
        /\ TargetInPlace
        /\ CASE delStage = "DEL_SHRINK_REMOVE" ->
                    /\ TargetChildren = 0
                    /\ animNode = delTargetNode
             [] delStage = "DEL_MOVE_CHILD_UP" ->
                    /\ TargetChildren = 1
                    /\ animNode \in nodes
                    /\ animNode \in {left[delTargetNode], right[delTargetNode]}
             [] OTHER ->
                    /\ TargetChildren = 2
                    /\ SuccessorInPlace

\* C27: in the frame that commits a Delete the recorded target is a node of
\* the tree that holds the requested value and sits in a link of the
\* recorded parent (or is the root when none was recorded), and it has as
\* many children as its stage says: none in DEL_SHRINK_REMOVE, one in
\* DEL_MOVE_CHILD_UP, two in DEL_MOVE_SUCCESSOR, where the recorded
\* successor sits in a link of the recorded successor parent, has no left
\* child and holds the least value of the target's right subtree.
C27_StagedReferencesValid == [][C27_Step]_vars

\* A two-child Delete below the root has just committed: the successor was
\* freed and the target, still in its parent's link, holds another value.
C27_Witness ==
    /\ FreshStatus("Deleted")
    /\ delStage = "DEL_FINALIZE"
    /\ delTargetParent \in nodes
    /\ delTargetNode \in {left[delTargetParent], right[delTargetParent]}
    /\ delTargetNode \in nodes
    /\ value[delTargetNode] # delValuePending

\* ---------- C28 ----------
\* The tree after Delete(v) was accepted and ran to idle.
StagedDelete(s, v) == TreeOf(RunToIdle(DeleteRequest(s, v)))

\* The tree after FindWithParent(v) and DeleteNodeStructural.
AtomicDelete(s, v) ==
    LET pr == FindWithParent(s, v)
    IN  TreeOf(DeleteNodeStructural(s, pr[1], pr[2]))

\* C28: from every idle state and for every value v that a node of the tree
\* holds, Delete(v) run through its stages to idle leaves the same tree
\* (root, live nodes, links and values) as DeleteNodeStructural applied to
\* the parent and node that FindWithParent returns for v.
C28_DeleteRefinesStructural ==
    AllIdle =>
        \A v \in SeedValues :
            Count(v) > 0 => StagedDelete(State, v) = AtomicDelete(State, v)

\* The root has two children: both deletions put the successor's value,
\* which is another one, in the root and free the successor.
C28_Witness ==
    /\ AllIdle
    /\ root # Null /\ left[root] # Null /\ right[root] # Null
    /\ LET r == DeleteNodeStructural(State, Null, root)
       IN  /\ r.value[root] # value[root]
           /\ r.nodes # nodes
           /\ TreeOf(r) = StagedDelete(State, value[root])

\* ---------- C29 ----------
\* The tree after Insert(v) was accepted and ran to idle.
StagedInsert(s, v) == TreeOf(RunToIdle(InsertRequest(s, v)))

\* C29: from every idle state with a node id to spare and for every value
\* v, Insert(v) run through its stages to idle leaves the same tree (root,
\* live nodes, links and values) as InsertValueImmediate(root, v).
C29_InsertRefinesImmediate ==
    (AllIdle /\ allocated < HeapSize) =>
        \A v \in SeedValues :
            StagedInsert(State, v) = TreeOf(InsertValueImmediate(State, v))

\* A tree of at least two levels in which a value it already holds is
\* inserted: both insertions put the new node to the right of the node
\* that holds it, at the end of the same descent.
C29_Witness ==
    /\ AllIdle /\ allocated < HeapSize
    /\ root # Null /\ left[root] # Null
    /\ LET v == value[left[root]]
           r == InsertValueImmediate(State, v)
       IN  /\ r.allocated \in Sub(r.left, r.right, r.right[left[root]],
                                  HeapSize)
           /\ TreeOf(r) = StagedInsert(State, v)
           /\ TreeOf(r) # TreeOf(State)

\* ---------- C30 ----------
\* What is cleared when each machine is idle.
ClearedAtIdle ==
    /\ insStage = "INS_IDLE" => insNewNode = Null /\ insFinalizeTimer = 0
    /\ delStage = "DEL_IDLE" =>
           /\ delTraversalPath = <<>> /\ delTraversalIndex = 0
           /\ successorNode = Null /\ successorParent = Null
           /\ animNode = Null /\ animReplaceNode = Null
    /\ searchStage = "S_IDLE" =>
           /\ searchPath = <<>> /\ searchIndex = 0
           /\ searchFinalNode = Null /\ flashCount = 0

\* C30: whenever a machine is idle its recorded path is empty and every
\* node reference it resolved is null: the insert path and parent, the
\* delete path, target, target parent, successor, successor parent and
\* moving nodes, the search path and final node.
C30_ContextDiscardedAtIdle ==
    /\ insStage = "INS_IDLE" =>
           insTraversalPath = <<>> /\ insParent = Null /\ insNewNode = Null
    /\ delStage = "DEL_IDLE" =>
           /\ delTraversalPath = <<>>
           /\ delTargetNode = Null /\ delTargetParent = Null
           /\ successorNode = Null /\ successorParent = Null
           /\ animNode = Null /\ animReplaceNode = Null
    /\ searchStage = "S_IDLE" =>
           searchPath = <<>> /\ searchFinalNode = Null

\* ---------- C31 ----------
\* C31: every node the drawing code is handed (the delete highlight, the
\* insert highlight and rings, the search current node, rings and flashing
\* final node, the animating node) is a live node reachable from root, so a
\* node that a delete commit freed is not among them in that frame or later.
C31_ExposedAreReachable == Exposed \subseteq (nodes \cap Reachable)

\* A delete has just committed and freed a node that its path still lists,
\* while nothing handed to the drawing code is that node.
C31_Witness ==
    /\ FreshStatus("Deleted")
    /\ delStage = "DEL_FINALIZE"
    /\ \E i \in 1..Len(delTraversalPath) : delTraversalPath[i] \notin nodes
    /\ Exposed \subseteq nodes

\* ---------- C32 ----------
\* C32: in the state a frame leaves when it reports a search outcome,
\* "Found v" comes with a node of the tree that holds v and "Not found v"
\* with a tree in which no node holds v.
C32_SearchOutcomeMatchesTree ==
    /\ FreshStatus("Found") => Count(statusMessage.v) > 0
    /\ FreshStatus("NotFound") => Count(statusMessage.v) = 0

\* ---------- C33 ----------
\* The state inside a frame when the timer block after the search machine
\* is reached.
BeforeTimerBlock == SearchMachine(DeleteMachine(InsertMachine(State)))

\* C33: between frames insStage is INS_FINALIZE exactly when
\* insFinalizeTimer is positive, and the timer stays within
\* 0..INS_FINALIZE_FRAMES; the same holds where a frame reaches the timer
\* block after the search machine, so that block finds the timer at zero,
\* and changes nothing, whenever the insert is in INS_TRAVERSING.
C33_FinalizeIffTimer ==
    /\ insFinalizeTimer \in 0..INS_FINALIZE_FRAMES
    /\ (insStage = "INS_FINALIZE") <=> (insFinalizeTimer > 0)
    /\ LET a == BeforeTimerBlock
       IN  /\ a.insFinalizeTimer \in 0..INS_FINALIZE_FRAMES
           /\ (a.insStage = "INS_FINALIZE") <=> (a.insFinalizeTimer > 0)
           /\ a.insStage = "INS_TRAVERSING" => InsFinalizeTimerBlock(a) = a
           /\ InsFinalizeTimerBlock(a).insStage = "INS_FINALIZE"
                  <=> InsFinalizeTimerBlock(a).insFinalizeTimer > 0

\* The insert is settling with one count left: the first decrement of the
\* next frame brings the timer to zero and the insert to idle.
C33_Witness ==
    /\ insStage = "INS_FINALIZE"
    /\ insFinalizeTimer = 1
    /\ InsertMachine(State).insStage = "INS_IDLE"
    /\ InsertMachine(State).insFinalizeTimer = 0

\* ---------- C34 ----------
\* C34: from every idle state with a node id to spare and for every value v
\* that no node of the tree holds, Insert(v) run to idle followed by
\* Delete(v) run to idle leaves the tree exactly as it was: the same root,
\* live nodes, links and values.
C34_RoundTripRestoresTree ==
    (AllIdle /\ allocated < HeapSize) =>
        \A v \in SeedValues :
            Count(v) = 0 => TreeOf(RoundTrip(State, v)) = TreeOf(State)

\* A tree of several nodes lacks a value; the round trip with it allocates
\* a node, attaches it below a node that has another child, and frees it
\* again, leaving the tree as it was.
C34_Witness ==
    /\ AllIdle /\ allocated < HeapSize
    /\ \E v \in SeedValues :
           /\ Count(v) = 0
           /\ LET i == RunToIdle(InsertRequest(State, v))
                  r == RoundTrip(State, v)
              IN  /\ i.insParent \in nodes
                  /\ i.left[i.insParent] # Null /\ i.right[i.insParent] # Null
                  /\ r.allocated = allocated + 1
                  /\ r.allocated \notin r.nodes
                  /\ TreeOf(r) = TreeOf(State)

\* ---------- C35 ----------
C35_Step ==
    CommitTick =>
        /\ ReachableNext \subseteq Reachable
        /\ Cardinality(Reachable \ ReachableNext) = 1
        /\ ReachableNext \subseteq nodes'

\* C35: in the insert+delete build, whatever values are inserted while a
\* Delete that found its target goes through its stages, the frame that
\* commits takes exactly one node out of the set reachable from root, and
\* the tree stays ordered.
C35_DeleteRemovesOneNode == []C1_BstOrdered /\ [][C35_Step]_vars

\* ---------- C36 ----------
C36_Inv ==
    /\ insTraversalIndex \in 0..Len(insTraversalPath)
    /\ delTraversalIndex \in 0..Len(delTraversalPath)
    /\ searchIndex \in 0..Len(searchPath)
    \* the drawing code has no empty insert path to fill in
    /\ insStage = "INS_TRAVERSING" /\ insTraversalPath = <<>> => root = Null
    /\ DrawPopulateInsPath(State) = State
    /\ EndPopulateInsPath(State) = State

C36_Step ==
    /\ insStage # "INS_IDLE" /\ insStage' # "INS_IDLE" =>
           /\ insTraversalPath' = insTraversalPath
           /\ insTraversalIndex' \in {insTraversalIndex, insTraversalIndex + 1}
    /\ delStage # "DEL_IDLE" /\ delStage' # "DEL_IDLE" =>
           /\ delTraversalPath' = delTraversalPath
           /\ delTraversalIndex' \in {delTraversalIndex, delTraversalIndex + 1}
    /\ searchStage # "S_IDLE" /\ searchStage' # "S_IDLE" =>
           /\ searchPath' = searchPath
           /\ searchIndex' \in {searchIndex, searchIndex + 1}

\* C36: for Insert, Delete and Search the index lies in 0..length of the
\* recorded path in every state; from one state to the next of a running
\* operation the path is the same and the index is the same or one more.
\* So path[index] is read only inside the path.
C36_IndexWithinPath == []C36_Inv /\ [][C36_Step]_vars

\* A search has shown the first of the two nodes of its path.
C36_Witness ==
    /\ searchStage = "S_TRAVERSING"
    /\ Len(searchPath) = 2
    /\ searchIndex = 1
    /\ searchCurrent = searchPath[1]

====
